---- MODULE Spec2Model ----
(***************************************************************************)
(* Model of rplayground_mcp/session_manager.py: the SessionManager         *)
(* registry, the AsyncRSession objects it holds, the embedded R            *)
(* interpreter's environments (one global environment shared by the whole  *)
(* process, one environment per session) and the sessions' temp            *)
(* directories.                                                            *)
(*                                                                         *)
(* None of the coroutines of session_manager.py contains a suspension      *)
(* point other than awaiting one another, and none of the awaited          *)
(* coroutines suspends: a call of create_session, execute_in_session,      *)
(* destroy_session or destroy runs to completion on the event loop before  *)
(* any other task runs.  Concurrent tasks therefore interleave whole       *)
(* calls, and each call is one action.                                     *)
(*                                                                         *)
(* The second part models pdf_conversion/converter_subprocess_impl.py: one *)
(* MPMarkerConverter, the multiprocessing pools it creates and their       *)
(* worker processes.  Its coroutines do suspend, at every                  *)
(* loop.run_in_executor: a call is a sequence of steps, and the steps of   *)
(* concurrent calls and of the workers interleave.                         *)
(***************************************************************************)
EXTENDS Integers, Sequences, FiniteSets, TLC

VARIABLES
    sessions,    \* SessionManager.sessions: insertion-ordered dict, a sequence of [id, inst]
    nextInst,    \* number of AsyncRSession objects constructed so far
    globalenv,   \* R's global environment
    envs,        \* the R environment objects made by new.env, by instance
    temp_dirs,   \* the directories made by tempfile.mkdtemp, by instance
    assigned,    \* history: the value guest code of an instance last assigned to a name
    last,        \* history: the last call made on the manager and what it returned
    pc,          \* the number of calls each caller task has made and seen return
    running,     \* the execute calls in flight: started, the R evaluation not yet returned
    returned,    \* what the last execute_in_session call of each caller task returned
    pool,          \* MPMarkerConverter._pool: 0 for None, else the pool
    startup_event, \* MPMarkerConverter._startup_event: 0 for None, else the pool it was made for
    pools,         \* the multiprocessing.Pool objects made so far, their worker and their event
    nextPool,      \* number of pools made so far
    frames,        \* the converter call each caller has in flight, and where it is suspended
    done           \* history: the converter call that completed last and how

vars == <<sessions, nextInst, globalenv, envs, temp_dirs, assigned, last,
          pc, running, returned,
          pool, startup_event, pools, nextPool, frames, done>>

\* the session manager's variables
mvars == <<sessions, nextInst, globalenv, envs, temp_dirs, assigned, last>>

\* the converter's variables
cvars == <<pool, startup_event, pools, nextPool, frames, done>>

\* the caller tasks' variables
tvars == <<pc, running, returned>>

(***************************************************************************)
(* Bounds and input sets                                                   *)
(***************************************************************************)
MaxInst == 3

Ids == {"A", "B"}

\* the caller tasks, the session each one works on and the base value it starts from
Tasks == 1..3

TaskIds == <<"A", "B", "C">>

Bases == <<100, 200, 300>>

\* every session id in use
AllIds == Ids \cup {TaskIds[t] : t \in Tasks}

Insts == 1..MaxInst

Vals == {100, 200}

Names == {"x", "result", "output", "counter", "df"}

\* the names guest code reads
ReadNames == {"x", "result"}

AssignNames == {"x"}

\* what the guest code writes into the directory of the path generator
Writes == {"png", "jpg", "subdir", "bad"}

\* where the construction of an AsyncRSession fails
InitFailures == {"none", "mkdtemp", "new_env", "setup"}

None == "None"

\* the pools one converter makes, and the tasks that call it
MaxPools == 2

PoolIds == 1..MaxPools

Callers == 1..2

\* a pool that was not made yet; of a pool that was: the state of the Pool
\* object, how far the worker's initializer is, whether the startup event is
\* set, the number of submitted jobs that have not finished, whether the
\* worker is in a job that never finishes
NoPool == [state |-> "none", init |-> "pending", event |-> FALSE, pending |-> 0, hung |-> FALSE]

\* a caller with no call in flight; of a call in flight: the method, the
\* await it is suspended at, its local pool and event, whether it waits with
\* a timeout, its job, the pool_to_shutdown of the async_shutdown it is in,
\* the exception it raises when that returns, and whether its handler calls
\* async_shutdown once more before
Idle ==
    [op |-> "idle", at |-> "idle", pool |-> 0, event |-> 0, timed |-> FALSE,
     job |-> "none", down |-> 0, exc |-> None, again |-> FALSE]

NoCall == [caller |-> 0, op |-> "none", ret |-> None, pool |-> 0]

Unbound == [v |-> -1, by |-> 0]

EmptyEnv == [n \in Names |-> Unbound]

NoDir == [exists |-> FALSE, files |-> {}]

\* what guest code prints or returns without binding anything: nothing and
\* NULL (the empty code string) | print(x) | cat("hello\n"); x |
\* cat("hello\n") | cat("hello\n"); list(a = 1) | a value the Python side
\* cannot handle (self.r, rx2 or str raises something that is not an R error)
OutputOps == {"null", "print", "cat", "cat_null", "cat_list", "print_list", "host_error"}

\* guest code: x <- val | name | stop() | a syntax error |
\* write a file at get_img_dest_file_name(), then "done" | the same, then stop() |
\* the same, then NULL | one of OutputOps |
\* counter <- val | df <- data.frame(value = c(val, val + 1, val + 2)) |
\* counter <- counter + sum(df$value) | counter | repeat {}
Codes ==
    [op : {"assign"}, name : AssignNames, val : Vals, write : {"none"}]
    \cup [op : {"read"}, name : ReadNames, val : {0}, write : {"none"}]
    \cup [op : {"stop", "parse_error"}, name : {"x"}, val : {0}, write : {"none"}]
    \cup [op : {"write"}, name : {"x"}, val : {0}, write : Writes]
    \cup [op : {"write_stop"}, name : {"x"}, val : {0}, write : {"png"}]
    \cup [op : {"write_null"}, name : {"x"}, val : {0}, write : {"png"}]
    \cup [op : OutputOps, name : {"x"}, val : {0}, write : {"none"}]
    \cup [op : {"assign"}, name : {"counter"}, val : {Bases[t] : t \in Tasks}, write : {"none"}]
    \cup [op : {"build"}, name : {"df"}, val : {Bases[t] : t \in Tasks}, write : {"none"}]
    \cup [op : {"add", "read"}, name : {"counter"}, val : {0}, write : {"none"}]
    \cup [op : {"hang"}, name : {"x"}, val : {0}, write : {"none"}]

NoCode == [op |-> "none", name |-> "x", val |-> 0, write |-> "none"]

(***************************************************************************)
(* The registry                                                            *)
(***************************************************************************)
SessionIds(reg) == {reg[i].id : i \in DOMAIN reg}

SessionOf(reg, id) == (CHOOSE i \in DOMAIN reg : reg[i].id = id)

InstOf(reg, id) == IF id \in SessionIds(reg) THEN reg[SessionOf(reg, id)].inst ELSE 0

RemoveKey(reg, id) == SelectSeq(reg, LAMBDA e : e.id # id)

Keys(reg) == [i \in DOMAIN reg |-> reg[i].id]

\* the program state the operations below read and return
State == [sessions |-> sessions, globalenv |-> globalenv, envs |-> envs, temp_dirs |-> temp_dirs]

(***************************************************************************)
(* ExecutionResult                                                         *)
(***************************************************************************)
ExecutionResult(ok, rerr, syserr, imgs) ==
    [successful_output |-> ok, r_error_output |-> rerr,
     system_error_output |-> syserr, images |-> imgs]

NoResult == ExecutionResult(None, None, None, {})

\* R's NULL and a list, as values of guest code
RNull == [v |-> -2, by |-> 0]

RList == [v |-> -3, by |-> 0]

\* result_str: str(r_result), "" for NULL
ToStr(v) ==
    IF v = RNull.v THEN "" ELSE IF v = RList.v THEN "$a [1] 1"
    ELSE IF v = 0 THEN "[1] done" ELSE "[1] " \o ToString(v)

\* str.startswith
startswith(s, prefix) ==
    Len(s) >= Len(prefix) /\ SubSeq(s, 1, Len(prefix)) = prefix

\* sub in s
contains(s, sub) ==
    \E i \in 1..(Len(s) + 1) :
        i + Len(sub) - 1 <= Len(s) /\ SubSeq(s, i, i + Len(sub) - 1) = sub

\* str.strip
RECURSIVE strip(_)
strip(s) ==
    IF s = "" THEN s
    ELSE IF SubSeq(s, 1, 1) \in {" ", "\n"} THEN strip(SubSeq(s, 2, Len(s)))
    ELSE IF SubSeq(s, Len(s), Len(s)) \in {" ", "\n"} THEN strip(SubSeq(s, 1, Len(s) - 1))
    ELSE s

\* a combination that reports no output as no outcome
combined_output_or_none(output_str, result_str) ==
    IF output_str = "" /\ result_str = "" THEN None
    ELSE IF output_str # "" /\ result_str # "" /\ ~contains(output_str, result_str)
    THEN output_str \o "\n" \o result_str
    ELSE IF output_str # "" THEN output_str ELSE result_str

\* the combined output of a successful execute
combined_output(output_str, result_str) ==
    IF output_str # "" /\ result_str # "" /\ ~startswith(result_str, "[1]")
    THEN output_str \o "\n" \o result_str
    ELSE IF output_str # "" /\ result_str # ""
    THEN IF contains(strip(output_str), strip(result_str)) THEN output_str
         ELSE output_str \o "\n" \o result_str
    ELSE IF output_str # "" THEN output_str ELSE result_str

DoesNotExist(id) == "Session " \o id \o " does not exist"

(***************************************************************************)
(* The R interpreter.  globalenv holds the bindings the program makes in   *)
(* R's global environment: session_env_<id> (an environment, by instance,  *)
(* 0 when unbound), get_img_dest_file_name (a closure, by the instance of  *)
(* the environment it closes over, 0 when unbound) and the variables.      *)
(***************************************************************************)
EmptyGlobal ==
    [session_env |-> [i \in AllIds |-> 0], img_func |-> 0, vars |-> EmptyEnv]

\* the environments reachable from the global environment
Reachable(genv) == {genv.session_env[i] : i \in AllIds} \cup {genv.img_func}

\* R's garbage collector: an environment nothing refers to is gone
gc(st) ==
    [st EXCEPT !.envs = [i \in Insts |->
        IF i \in Reachable(st.globalenv) THEN st.envs[i] ELSE EmptyEnv]]

\* a lookup that starts at the parent of the session environment
r_lookup_parent(st, e, name) == st.globalenv.vars[name]

\* the value of a name evaluated in environment e, whose parent is globalenv
r_lookup(st, e, name) ==
    IF st.envs[e][name] # Unbound THEN st.envs[e][name] ELSE st.globalenv.vars[name]

\* one environment shared by all the sessions
r_assign_shared(st, e, name, val) ==
    [st EXCEPT !.envs = [i \in Insts |-> [@[i] EXCEPT ![name] = val]]]

\* a wrapper that evaluates the guest code in the global environment
r_assign_global(st, e, name, val) == [st EXCEPT !.globalenv.vars[name] = val]

\* x <- val evaluated by local(..., envir = e)
r_assign(st, e, name, val) == [st EXCEPT !.envs[e][name] = val]

\* output <- capture.output({ result <- local(...) }), evaluated by self.r(...)
wrapper_assign(st, val, inst) ==
    [st EXCEPT !.globalenv.vars["result"] = val,
               !.globalenv.vars["output"] = [v |-> 0, by |-> inst]]

\* the directory get_img_dest_file_name() names when guest code calls it:
\* the instance whose .session_plot_dir the closure found by that name sees
img_dest_dir(st, e) == st.globalenv.img_func

\* guest code writes to the path the path generator returns; a plot file is
\* marked as written by the call in progress (old = FALSE)
guest_write(st, s, e, write) ==
    LET j == img_dest_dir(st, e)
        f == [kind |-> write, old |-> (write # "png")]
    IN  IF write = "none" THEN [ok |-> TRUE, st |-> st]
        ELSE IF j = 0 THEN [ok |-> FALSE, st |-> st]
        ELSE IF ~st.temp_dirs[j].exists THEN [ok |-> (write = "subdir"), st |-> st]
        ELSE [ok |-> TRUE,
              st |-> [st EXCEPT !.temp_dirs[j].files = @ \cup {f}]]

\* self.r(wrapper_code): parse, then evaluate the guest code in session_env_<id>
r_eval(st, s, code) ==
    LET e == st.globalenv.session_env[s.id]
        err(t, m) == [status |-> "runtime_error", st |-> t, value |-> Unbound,
                      output |-> "", msg |-> m]
        out(t, val, o) == [status |-> "ok", st |-> wrapper_assign(t, val, s.inst),
                           value |-> val, output |-> o, msg |-> ""]
        ok(t, val) == out(t, val, "")
    IN  IF code.op = "parse_error"
        THEN [status |-> "parse_error", st |-> st, value |-> Unbound,
              output |-> "", msg |-> "unexpected end of input"]
        ELSE IF e = 0 THEN err(st, "object not found")
        ELSE LET w == guest_write(st, s, e, code.write)
             IN  IF ~w.ok THEN err(st, "unable to start png() device")
                 ELSE CASE code.op = "assign" ->
                             LET val == [v |-> code.val, by |-> s.inst]
                             IN  ok(r_assign(w.st, e, code.name, val), val)
                        [] code.op = "read" ->
                             LET val == r_lookup(w.st, e, code.name)
                             IN  IF val = Unbound THEN err(w.st, "object not found")
                                 ELSE ok(w.st, val)
                        [] code.op = "write" -> ok(w.st, [v |-> 0, by |-> s.inst])
                        [] code.op = "build" ->
                             LET val == [v |-> code.val + (code.val + 1) + (code.val + 2),
                                         by |-> s.inst]
                             IN  ok(r_assign(w.st, e, code.name, val), val)
                        [] code.op = "add" ->
                             LET c == r_lookup(w.st, e, "counter")
                                 d == r_lookup(w.st, e, "df")
                                 val == [v |-> c.v + d.v, by |-> s.inst]
                             IN  IF c = Unbound \/ d = Unbound
                                 THEN err(w.st, "object not found")
                                 ELSE ok(r_assign(w.st, e, code.name, val), val)
                        [] code.op \in {"null", "write_null"} -> ok(w.st, RNull)
                        [] code.op = "print" ->
                             LET val == r_lookup(w.st, e, code.name)
                             IN  IF val = Unbound THEN err(w.st, "object not found")
                                 ELSE out(w.st, val, ToStr(val.v))
                        [] code.op = "cat" ->
                             LET val == r_lookup(w.st, e, code.name)
                             IN  IF val = Unbound THEN err(w.st, "object not found")
                                 ELSE out(w.st, val, "hello")
                        [] code.op = "cat_null" -> out(w.st, RNull, "hello")
                        [] code.op = "cat_list" -> out(w.st, RList, "hello")
                        [] code.op = "print_list" -> out(w.st, RList, ToStr(RList.v))
                        [] code.op = "host_error" ->
                             [status |-> "python_error",
                              st |-> wrapper_assign(w.st, [v |-> 0, by |-> s.inst], s.inst),
                              value |-> Unbound,
                              output |-> "", msg |-> "AttributeError"]
                        [] OTHER -> err(w.st, "stop")

(***************************************************************************)
(* AsyncRSession                                                           *)
(***************************************************************************)
\* a _cleanup_temp_dir that gives up at the first entry it cannot remove
cleanup_temp_dir_stop_at_first(dirs, inst) ==
    LET d == dirs[inst]
        left == {f \in d.files : f.kind = "subdir"}
    IN  IF ~d.exists THEN [temp_dirs |-> dirs, failed |-> FALSE]
        ELSE IF left = {} THEN [temp_dirs |-> [dirs EXCEPT ![inst] = NoDir], failed |-> FALSE]
        ELSE [temp_dirs |-> dirs, failed |-> TRUE]

\* _cleanup_temp_dir: os.remove of each entry (a directory is not removable:
\* logged), then os.rmdir, which fails on a directory that is not empty
cleanup_temp_dir(dirs, inst) ==
    LET d == dirs[inst]
        left == {f \in d.files : f.kind = "subdir"}
    IN  IF ~d.exists THEN [temp_dirs |-> dirs, failed |-> FALSE]
        ELSE IF left = {} THEN [temp_dirs |-> [dirs EXCEPT ![inst] = NoDir], failed |-> FALSE]
        ELSE [temp_dirs |-> [dirs EXCEPT ![inst].files = left], failed |-> TRUE]

\* an __init__ whose handler raises without _cleanup_temp_dir
AsyncRSession_init_no_cleanup(st, id, inst, fail) ==
    LET made == [st EXCEPT !.temp_dirs[inst] = [exists |-> TRUE, files |-> {}]]
        bound == [made EXCEPT !.globalenv.session_env[id] = inst, !.envs[inst] = EmptyEnv]
    IN  CASE fail = "mkdtemp" -> [ok |-> FALSE, st |-> st]
          [] fail = "new_env" -> [ok |-> FALSE, st |-> made]
          [] fail = "setup" -> [ok |-> FALSE, st |-> bound]
          [] OTHER -> [ok |-> TRUE, st |-> [bound EXCEPT !.globalenv.img_func = inst]]

\* AsyncRSession.__init__
AsyncRSession_init(st, id, inst, fail) ==
    LET made == [st EXCEPT !.temp_dirs[inst] = [exists |-> TRUE, files |-> {}]]
        bound == [made EXCEPT !.globalenv.session_env[id] = inst, !.envs[inst] = EmptyEnv]
        undo(t) == [t EXCEPT !.temp_dirs = cleanup_temp_dir(t.temp_dirs, inst).temp_dirs]
    IN  CASE fail = "mkdtemp" -> [ok |-> FALSE, st |-> st]
          [] fail = "new_env" -> [ok |-> FALSE, st |-> undo(made)]
          [] fail = "setup" -> [ok |-> FALSE, st |-> undo(bound)]
          [] OTHER -> [ok |-> TRUE, st |-> [bound EXCEPT !.globalenv.img_func = inst]]

\* traceback.format_exc() in the handler of an exception with message msg
format_exc(msg) == "Traceback (most recent call last): " \o msg

\* the text execute reports for an exception that is not an R error
python_error(msg) == "Python error: " \o msg \o "\n" \o format_exc(msg)

\* a harvest that a file it cannot decode ends
harvest_abort_on_bad(dirs, inst) ==
    LET found == IF dirs[inst].exists
                 THEN {f \in dirs[inst].files : f.kind \in {"png", "bad"}} ELSE {}
        decoded == IF \E f \in found : f.kind = "bad" THEN {} ELSE found
    IN  [images |-> decoded,
         temp_dirs |-> [dirs EXCEPT ![inst].files = @ \ decoded]]

\* the harvest at the end of a successful execute: each plot_*.png is opened,
\* copied and removed in a try of its own; a file that does not decode
\* ("bad") is logged and stays
harvest(dirs, inst) ==
    LET found == IF dirs[inst].exists
                 THEN {f \in dirs[inst].files : f.kind \in {"png", "bad"}} ELSE {}
        decoded == {f \in found : f.kind = "png"}
    IN  [images |-> decoded,
         temp_dirs |-> [dirs EXCEPT ![inst].files = @ \ decoded]]

\* an execute that harvests on the error paths too
AsyncRSession_execute_harvest_always(st, s, code) ==
    IF s.session_env = 0
    THEN [st |-> st, value |-> Unbound, raised |-> FALSE,
          result |-> ExecutionResult(None, None, "R session not properly initialized", {})]
    ELSE LET ev == r_eval(st, s, code)
             h == harvest(ev.st.temp_dirs, s.inst)
             after == [ev.st EXCEPT !.temp_dirs = h.temp_dirs]
         IN  CASE ev.status = "ok" ->
                    [st |-> after, value |-> ev.value, raised |-> FALSE,
                     result |-> ExecutionResult(
                                    combined_output(ev.output, ToStr(ev.value.v)),
                                    None, None, h.images)]
               [] ev.status = "runtime_error" ->
                    [st |-> after, value |-> Unbound, raised |-> FALSE,
                     result |-> ExecutionResult(None, ev.msg, None, h.images)]
               [] ev.status = "python_error" ->
                    [st |-> after, value |-> Unbound, raised |-> FALSE,
                     result |-> ExecutionResult(None, None, python_error(ev.msg), h.images)]
               [] OTHER ->
                    [st |-> after, value |-> Unbound, raised |-> FALSE,
                     result |-> ExecutionResult(None, "R parsing error: " \o ev.msg, None, h.images)]

\* an execute whose handler of a guest runtime error resets the environment
AsyncRSession_execute_reset_on_error(st, s, code) ==
    IF s.session_env = 0
    THEN [st |-> st, value |-> Unbound, raised |-> FALSE,
          result |-> ExecutionResult(None, None, "R session not properly initialized", {})]
    ELSE LET ev == r_eval(st, s, code)
         IN  CASE ev.status = "ok" ->
                    LET h == harvest(ev.st.temp_dirs, s.inst)
                    IN  [st |-> [ev.st EXCEPT !.temp_dirs = h.temp_dirs], value |-> ev.value,
                         raised |-> FALSE,
                         result |-> ExecutionResult(
                                        combined_output(ev.output, ToStr(ev.value.v)),
                                        None, None, h.images)]
               [] ev.status = "runtime_error" ->
                    [st |-> [ev.st EXCEPT !.envs[s.inst] = EmptyEnv],
                     value |-> Unbound, raised |-> FALSE,
                     result |-> ExecutionResult(None, ev.msg, None, {})]
               [] ev.status = "python_error" ->
                    [st |-> ev.st, value |-> Unbound, raised |-> FALSE,
                     result |-> ExecutionResult(None, None, python_error(ev.msg), {})]
               [] OTHER ->
                    [st |-> ev.st, value |-> Unbound, raised |-> FALSE,
                     result |-> ExecutionResult(None, "R parsing error: " \o ev.msg, None, {})]

\* an execute that reports a parse error as it reports a runtime error
AsyncRSession_execute_untagged(st, s, code) ==
    IF s.session_env = 0
    THEN [st |-> st, value |-> Unbound, raised |-> FALSE,
          result |-> ExecutionResult(None, None, "R session not properly initialized", {})]
    ELSE LET ev == r_eval(st, s, code)
         IN  CASE ev.status = "ok" ->
                    LET h == harvest(ev.st.temp_dirs, s.inst)
                    IN  [st |-> [ev.st EXCEPT !.temp_dirs = h.temp_dirs], value |-> ev.value,
                         raised |-> FALSE,
                         result |-> ExecutionResult(
                                        combined_output(ev.output, ToStr(ev.value.v)),
                                        None, None, h.images)]
               [] ev.status = "python_error" ->
                    [st |-> ev.st, value |-> Unbound, raised |-> FALSE,
                     result |-> ExecutionResult(None, None, python_error(ev.msg), {})]
               [] OTHER ->
                    [st |-> ev.st, value |-> Unbound, raised |-> FALSE,
                     result |-> ExecutionResult(None, ev.msg, None, {})]

\* an execute without the handler of the exceptions that are not R errors
AsyncRSession_execute_uncaught(st, s, code) ==
    IF s.session_env = 0
    THEN [st |-> st, value |-> Unbound, raised |-> FALSE,
          result |-> ExecutionResult(None, None, "R session not properly initialized", {})]
    ELSE LET ev == r_eval(st, s, code)
         IN  CASE ev.status = "ok" ->
                    LET h == harvest(ev.st.temp_dirs, s.inst)
                    IN  [st |-> [ev.st EXCEPT !.temp_dirs = h.temp_dirs], value |-> ev.value,
                         raised |-> FALSE,
                         result |-> ExecutionResult(
                                        combined_output(ev.output, ToStr(ev.value.v)),
                                        None, None, h.images)]
               [] ev.status = "runtime_error" ->
                    [st |-> ev.st, value |-> Unbound, raised |-> FALSE,
                     result |-> ExecutionResult(None, ev.msg, None, {})]
               [] ev.status = "python_error" ->
                    [st |-> ev.st, value |-> Unbound, raised |-> TRUE, result |-> NoResult]
               [] OTHER ->
                    [st |-> ev.st, value |-> Unbound, raised |-> FALSE,
                     result |-> ExecutionResult(None, "R parsing error: " \o ev.msg, None, {})]

\* AsyncRSession.execute
AsyncRSession_execute(st, s, code) ==
    IF s.session_env = 0
    THEN [st |-> st, value |-> Unbound, raised |-> FALSE,
          result |-> ExecutionResult(None, None, "R session not properly initialized", {})]
    ELSE LET ev == r_eval(st, s, code)
         IN  CASE ev.status = "ok" ->
                    LET h == harvest(ev.st.temp_dirs, s.inst)
                    IN  [st |-> [ev.st EXCEPT !.temp_dirs = h.temp_dirs], value |-> ev.value,
                         raised |-> FALSE,
                         result |-> ExecutionResult(
                                        combined_output(ev.output, ToStr(ev.value.v)),
                                        None, None, h.images)]
               [] ev.status = "runtime_error" ->
                    [st |-> ev.st, value |-> Unbound, raised |-> FALSE,
                     result |-> ExecutionResult(None, ev.msg, None, {})]
               [] ev.status = "python_error" ->
                    [st |-> ev.st, value |-> Unbound, raised |-> FALSE,
                     result |-> ExecutionResult(None, None, python_error(ev.msg), {})]
               [] OTHER ->
                    [st |-> ev.st, value |-> Unbound, raised |-> FALSE,
                     result |-> ExecutionResult(None, "R parsing error: " \o ev.msg, None, {})]

\* AsyncRSession.destroy
AsyncRSession_destroy(st, s, rFails) ==
    LET removed == IF rFails THEN st
                   ELSE gc([st EXCEPT !.globalenv.session_env[s.id] = 0])
        c == cleanup_temp_dir(removed.temp_dirs, s.inst)
    IN  [st |-> [removed EXCEPT !.temp_dirs = c.temp_dirs],
         raised |-> FALSE, failed |-> rFails \/ c.failed]

(***************************************************************************)
(* SessionManager                                                          *)
(***************************************************************************)
\* a destroy_session that answers True for an id it does not hold
destroy_session_always_true(st, id, rFails) ==
    IF id \in SessionIds(st.sessions)
    THEN LET s == st.sessions[SessionOf(st.sessions, id)]
             d == AsyncRSession_destroy(st, s, rFails)
         IN  [st |-> [d.st EXCEPT !.sessions = RemoveKey(@, id)],
              ret |-> TRUE, raised |-> FALSE, failed |-> d.failed \/ d.raised]
    ELSE [st |-> st, ret |-> TRUE, raised |-> FALSE, failed |-> FALSE]

\* a destroy_session that deletes the entry only after a cleanup that went well
destroy_session_del_in_try(st, id, rFails) ==
    IF id \in SessionIds(st.sessions)
    THEN LET s == st.sessions[SessionOf(st.sessions, id)]
             d == AsyncRSession_destroy(st, s, rFails)
         IN  [st |-> IF d.failed \/ d.raised THEN d.st
                     ELSE [d.st EXCEPT !.sessions = RemoveKey(@, id)],
              ret |-> TRUE, raised |-> FALSE, failed |-> d.failed \/ d.raised]
    ELSE [st |-> st, ret |-> FALSE, raised |-> FALSE, failed |-> FALSE]

\* SessionManager.destroy_session
destroy_session(st, id, rFails) ==
    IF id \in SessionIds(st.sessions)
    THEN LET s == st.sessions[SessionOf(st.sessions, id)]
             d == AsyncRSession_destroy(st, s, rFails)
         IN  \* finally: the entry is deleted whether or not destroy raised
             [st |-> [d.st EXCEPT !.sessions = RemoveKey(@, id)],
              ret |-> TRUE, raised |-> FALSE, failed |-> d.failed \/ d.raised]
    ELSE [st |-> st, ret |-> FALSE, raised |-> FALSE, failed |-> FALSE]

\* a session_id that is generated even when one is given
session_id_generated(given, rnd) ==
    CHOOSE i \in Ids : i # given

\* the id create_session works with: the given one, otherwise a generated
\* "s" + 8 digits, which nothing keeps apart from the ids in use
session_id(given, rnd) ==
    IF given = None THEN rnd ELSE given

\* a create_session that registers the session object before its
\* construction has gone through
create_session_register_first(st, id, inst, fail, rFails) ==
    LET d == IF id \in SessionIds(st.sessions)
             THEN destroy_session(st, id, rFails)
             ELSE [st |-> st, ret |-> FALSE, raised |-> FALSE, failed |-> FALSE]
        c == AsyncRSession_init(d.st, id, inst, fail)
        s == [id |-> id, inst |-> inst, session_env |-> IF c.ok THEN inst ELSE 0]
    IN  [st |-> [c.st EXCEPT !.sessions = Append(@, s)],
         ret |-> IF c.ok THEN id ELSE None, raised |-> ~c.ok, failed |-> d.failed]

\* a create_session that overwrites the entry of a registered id
create_session_overwrite(st, id, inst, fail, rFails) ==
    LET c == AsyncRSession_init(st, id, inst, fail)
        s == [id |-> id, inst |-> inst, session_env |-> inst]
    IN  IF c.ok
        THEN [st |-> [c.st EXCEPT !.sessions = Append(RemoveKey(@, id), s)],
              ret |-> id, raised |-> FALSE, failed |-> FALSE]
        ELSE [st |-> c.st, ret |-> None, raised |-> TRUE, failed |-> FALSE]

\* SessionManager.create_session, after the id has been chosen
create_session(st, id, inst, fail, rFails) ==
    LET d == IF id \in SessionIds(st.sessions)
             THEN destroy_session(st, id, rFails)
             ELSE [st |-> st, ret |-> FALSE, raised |-> FALSE, failed |-> FALSE]
        c == AsyncRSession_init(d.st, id, inst, fail)
        s == [id |-> id, inst |-> inst, session_env |-> inst]
    IN  IF c.ok
        THEN [st |-> [c.st EXCEPT !.sessions = Append(@, s)],
              ret |-> id, raised |-> FALSE, failed |-> d.failed]
        ELSE [st |-> c.st, ret |-> None, raised |-> TRUE, failed |-> d.failed]

\* an execute_in_session that indexes the registry without looking
execute_in_session_keyerror(st, id, code) ==
    IF id \notin SessionIds(st.sessions)
    THEN [st |-> st, value |-> Unbound, raised |-> TRUE, result |-> NoResult]
    ELSE LET r == AsyncRSession_execute(st, st.sessions[SessionOf(st.sessions, id)], code)
         IN  [st |-> r.st, value |-> r.value, raised |-> r.raised, result |-> r.result]

\* SessionManager.execute_in_session
execute_in_session(st, id, code) ==
    IF id \notin SessionIds(st.sessions)
    THEN [st |-> st, value |-> Unbound, raised |-> FALSE,
          result |-> ExecutionResult(None, None, DoesNotExist(id), {})]
    ELSE LET r == AsyncRSession_execute(st, st.sessions[SessionOf(st.sessions, id)], code)
         IN  [st |-> r.st, value |-> r.value, raised |-> r.raised, result |-> r.result]

\* the loop of SessionManager.destroy over session_ids
RECURSIVE destroy_each(_, _, _)
destroy_each(st, session_ids, rf) ==
    IF session_ids = <<>> THEN [st |-> st, failed |-> FALSE]
    ELSE LET d == destroy_session(st, Head(session_ids), rf[Head(session_ids)])
             rest == destroy_each(d.st, Tail(session_ids), rf)
         IN  [st |-> rest.st, failed |-> d.failed \/ rest.failed]

\* a destroy that iterates over the live dict: the first deletion ends the loop
destroy_live(st, rf) ==
    destroy_each(st, IF Keys(st.sessions) = <<>> THEN <<>>
                     ELSE <<Head(Keys(st.sessions))>>, rf)

\* SessionManager.destroy
destroy(st, rf) == destroy_each(st, Keys(st.sessions), rf)

(***************************************************************************)
(* History                                                                 *)
(***************************************************************************)
\* every file present when an execute call starts was written by an earlier call
Aged(st) ==
    [st EXCEPT !.temp_dirs = [i \in Insts |->
        [exists |-> @[i].exists,
         files |-> {[f EXCEPT !.old = TRUE] : f \in @[i].files}]]]

(***************************************************************************)
(* The tool front end                                                      *)
(***************************************************************************)
RExecutionResult(sid, ok, rerr, syserr) ==
    [session_id |-> sid, successful_output |-> ok, r_error_output |-> rerr,
     system_error_output |-> syserr]

\* str(e) of the exception create_session lets through: the OSError of
\* tempfile.mkdtemp, or the RuntimeError AsyncRSession.__init__ raises
str_e(id, fail) ==
    IF fail = "mkdtemp" THEN "[Errno 28] No space left on device"
    ELSE "Failed to initialize R session environment session_env_" \o id

\* an execute_r_command without the handler around create_session
execute_r_command_unhandled(st, r_session_id, rnd, inst, command, fail) ==
    LET id == session_id(r_session_id, rnd)
        c == IF r_session_id = None THEN create_session(st, id, inst, fail, FALSE)
             ELSE [st |-> st, ret |-> id, raised |-> FALSE, failed |-> FALSE]
        r == execute_in_session(IF id \in SessionIds(c.st.sessions) THEN Aged(c.st) ELSE c.st,
                                id, command)
    IN  IF c.raised
        THEN [st |-> c.st, raised |-> TRUE, value |-> Unbound, images |-> {},
              ret |-> RExecutionResult(None, None, None, None)]
        ELSE [st |-> r.st, raised |-> r.raised, value |-> r.value, images |-> r.result.images,
              ret |-> RExecutionResult(id, r.result.successful_output,
                                       r.result.r_error_output,
                                       r.result.system_error_output)]

\* execute_r_command: the text content it returns (ret) and the images that
\* go with it; create_session is called without an id, and the R calls of a
\* destroy_session it triggers go through
execute_r_command(st, r_session_id, rnd, inst, command, fail) ==
    LET id == session_id(r_session_id, rnd)
        c == IF r_session_id = None THEN create_session(st, id, inst, fail, FALSE)
             ELSE [st |-> st, ret |-> id, raised |-> FALSE, failed |-> FALSE]
        r == execute_in_session(IF id \in SessionIds(c.st.sessions) THEN Aged(c.st) ELSE c.st,
                                id, command)
    IN  IF c.raised
        THEN [st |-> c.st, raised |-> FALSE, value |-> Unbound, images |-> {},
              ret |-> RExecutionResult("", None, None, str_e(id, fail))]
        ELSE [st |-> r.st, raised |-> r.raised, value |-> r.value, images |-> r.result.images,
              ret |-> RExecutionResult(id, r.result.successful_output,
                                       r.result.r_error_output,
                                       r.result.system_error_output)]

NoAssigned == [i \in Insts |-> [n \in AssignNames |-> Unbound]]

\* the history of assignments, kept for the registered instances only
Assigned(reg, a) ==
    [i \in Insts |-> IF \E k \in DOMAIN reg : reg[k].inst = i THEN a[i] ELSE NoAssigned[i]]

\* op(id) was called with count sessions registered, prev the instance then
\* registered under id (0: none) and inst the instance it ran in or constructed;
\* it returned ret or result, or raised; failed: a cleanup step failed and was
\* logged; value: the R value of the guest code
Last(op, id, inst, prev, code, ret, raised, failed, result, value) ==
    [op |-> op, id |-> id, given |-> id, inst |-> inst, prev |-> prev, code |-> code,
     count |-> Len(sessions),
     ret |-> ret, raised |-> raised, failed |-> failed, result |-> result, value |-> value]

\* the program state after a call
Becomes(st) ==
    /\ sessions' = st.sessions
    /\ globalenv' = st.globalenv
    /\ envs' = st.envs
    /\ temp_dirs' = st.temp_dirs

(***************************************************************************)
(* The state machine                                                       *)
(***************************************************************************)
Init ==
    /\ sessions = <<>>
    /\ nextInst = 0
    /\ globalenv = EmptyGlobal
    /\ envs = [i \in Insts |-> EmptyEnv]
    /\ temp_dirs = [i \in Insts |-> NoDir]
    /\ assigned = NoAssigned
    /\ last = Last("none", None, 0, 0, NoCode, None, FALSE, FALSE, NoResult, Unbound)
    /\ pc = [t \in Tasks |-> 0]
    /\ running = {}
    /\ returned = [t \in Tasks |-> NoResult]
    /\ pool = 0
    /\ startup_event = 0
    /\ pools = [p \in PoolIds |-> NoPool]
    /\ nextPool = 0
    /\ frames = [c \in Callers |-> Idle]
    /\ done = NoCall

\* create_session(given): the id is the given one, or the generated one rnd
\* when none is given
CreateSessionAs(given, rnd, fail, rFails) ==
    /\ nextInst < MaxInst
    /\ \E id \in {session_id(given, rnd)} :
         \E r \in {create_session(State, id, nextInst + 1, fail, rFails)} :
           /\ Becomes(r.st)
           /\ nextInst' = nextInst + 1
           /\ assigned' = Assigned(r.st.sessions, assigned)
           /\ last' = [Last("create_session", id, nextInst + 1, InstOf(sessions, id),
                            NoCode, r.ret, r.raised, r.failed, NoResult, Unbound)
                          EXCEPT !.given = given]
           /\ UNCHANGED cvars

CreateSession(id, fail, rFails) == CreateSessionAs(id, id, fail, rFails)

\* create_session() without an id
CreateSessionGenerated(rnd, fail, rFails) == CreateSessionAs(None, rnd, fail, rFails)

ExecuteInSession(id, code) ==
    \E known \in {id \in SessionIds(sessions)}, i \in {InstOf(sessions, id)} :
      \E r \in {execute_in_session(IF known THEN Aged(State) ELSE State, id, code)} :
        /\ Becomes(r.st)
        /\ UNCHANGED nextInst
        /\ assigned' = IF /\ known /\ code.op = "assign" /\ code.name \in AssignNames
                          /\ r.result.successful_output # None
                       THEN [assigned EXCEPT ![i][code.name] = [v |-> code.val, by |-> i]]
                       ELSE assigned
        /\ last' = Last("execute_in_session", id, i, i, code,
                        None, r.raised, FALSE, r.result, r.value)
        /\ UNCHANGED cvars

DestroySession(id, rFails) ==
    \E r \in {destroy_session(State, id, rFails)} :
        /\ Becomes(r.st)
        /\ UNCHANGED nextInst
        /\ assigned' = Assigned(r.st.sessions, assigned)
        /\ last' = Last("destroy_session", id, InstOf(sessions, id), InstOf(sessions, id),
                        NoCode, IF r.ret THEN "True" ELSE "False", r.raised, r.failed,
                        NoResult, Unbound)
        /\ UNCHANGED cvars

Destroy(rf) ==
    \E r \in {destroy(State, rf)} :
        /\ Becomes(r.st)
        /\ UNCHANGED nextInst
        /\ assigned' = Assigned(r.st.sessions, assigned)
        /\ last' = Last("destroy", None, 0, 0, NoCode, None, FALSE, r.failed,
                        NoResult, Unbound)
        /\ UNCHANGED cvars

\* execute_r_command(command, r_session_id): last.ret is the session_id of the
\* result, last.result its other fields with the images, last.inst the
\* instance the command ran in (0: none)
ExecuteRCommand(r_session_id, rnd, command, fail) ==
    /\ r_session_id = None => nextInst < MaxInst
    /\ \E inst \in {nextInst + 1} :
         \E r \in {execute_r_command(State, r_session_id, rnd, inst, command, fail)} :
           /\ Becomes(r.st)
           /\ nextInst' = IF r_session_id = None THEN inst ELSE nextInst
           /\ \E i \in {InstOf(r.st.sessions, r.ret.session_id)} :
                /\ assigned' =
                     IF /\ i # 0 /\ command.op = "assign" /\ command.name \in AssignNames
                        /\ r.ret.successful_output # None
                     THEN [Assigned(r.st.sessions, assigned)
                             EXCEPT ![i][command.name] = [v |-> command.val, by |-> i]]
                     ELSE Assigned(r.st.sessions, assigned)
                /\ last' = [Last("execute_r_command", session_id(r_session_id, rnd), i,
                                 InstOf(sessions, session_id(r_session_id, rnd)), command,
                                 r.ret.session_id, r.raised, FALSE,
                                 ExecutionResult(r.ret.successful_output, r.ret.r_error_output,
                                                 r.ret.system_error_output, r.images),
                                 r.value)
                               EXCEPT !.given = r_session_id]
           /\ UNCHANGED cvars

\* the AsyncRSession object the last call left unusable: the one a
\* destroy_session has destroyed, or the one whose __init__ raised before
\* session_env was set
Unusable ==
    IF last.op = "destroy_session"
    THEN [id |-> last.id, inst |-> last.prev, session_env |-> last.prev]
    ELSE [id |-> last.id, inst |-> last.inst, session_env |-> 0]

\* AsyncRSession.execute called on that object by a holder of a reference
Execute(code) ==
    /\ \/ last.op = "destroy_session" /\ last.prev # 0
       \/ last.op = "create_session" /\ last.raised
    /\ \E s \in {Unusable} :
         \E r \in {AsyncRSession_execute(State, s, code)} :
           /\ Becomes(r.st)
           /\ UNCHANGED <<nextInst, assigned>>
           /\ last' = Last("execute", s.id, s.inst, s.session_env, code,
                           None, r.raised, FALSE, r.result, r.value)
           /\ UNCHANGED cvars

\* AsyncRSession.destroy called once more on the object a destroy_session has
\* just destroyed, by a holder of a reference
DestroyAgain(rFails) ==
    /\ last.op \in {"destroy_session", "AsyncRSession.destroy"} /\ last.prev # 0
    /\ \E s \in {[id |-> last.id, inst |-> last.prev, session_env |-> last.prev]} :
         \E r \in {AsyncRSession_destroy(State, s, rFails)} :
           /\ Becomes(r.st)
           /\ UNCHANGED <<nextInst, assigned>>
           /\ last' = Last("AsyncRSession.destroy", s.id, s.inst, s.inst, NoCode,
                           None, r.raised, r.failed, NoResult, Unbound)
           /\ UNCHANGED cvars

\* the calls tasks can make, over the guest codes C, the construction
\* failures F and the outcomes R of the R calls of AsyncRSession.destroy
NextOver(C, F, R) ==
    \/ \E id \in Ids, fail \in F, rFails \in R :
          CreateSession(id, fail, rFails) /\ UNCHANGED tvars
    \/ \E id \in Ids, code \in C : ExecuteInSession(id, code) /\ UNCHANGED tvars
    \/ \E id \in Ids, rFails \in R : DestroySession(id, rFails) /\ UNCHANGED tvars
    \/ \E rf \in [Ids -> R] : Destroy(rf) /\ UNCHANGED tvars

\* guest code that binds and reads names, and fails
BindingCodes ==
    {c \in Codes : c.op \in {"assign", "read", "stop", "parse_error"} /\ c.name \in ReadNames}

\* guest code that writes files, and one that does not
ImageCodes ==
    {c \in Codes : \/ c.op = "write" /\ c.write \in {"png", "jpg"}
                   \/ c.op = "write_stop"
                   \/ c.op = "assign" /\ c.name = "x" /\ c.val = 100}

\* guest code that makes the temp directory impossible to remove
LifecycleCodes ==
    {c \in Codes : \/ c.op = "write" /\ c.write = "subdir"
                   \/ c.op = "assign" /\ c.name = "x" /\ c.val = 100}

Next == NextOver(BindingCodes, InitFailures, BOOLEAN)

Spec == Init /\ [][Next]_vars

NextImages == NextOver(ImageCodes, {"none"}, {FALSE})

SpecImages == Init /\ [][NextImages]_vars

NextLifecycle == NextOver(LifecycleCodes, InitFailures, BOOLEAN)

SpecLifecycle == Init /\ [][NextLifecycle]_vars

\* guest code of every outcome: what it prints and returns, how it fails,
\* with and without a plot
ResultCodes ==
    {c \in Codes : \/ c.op \in OutputOps \cup {"stop", "parse_error", "write_stop", "write_null"}
                   \/ c.op = "write" /\ c.write = "png"
                   \/ c.op = "assign" /\ c.name = "x" /\ c.val = 100}

NextResults == NextOver(ResultCodes, {"none"}, {FALSE})

SpecResults == Init /\ [][NextResults]_vars

\* guest code that fails in R and on the Python side, and code that makes the
\* cleanup fail
CreateCodes ==
    {c \in Codes : c.name = "x" /\ c.val \in {0, 100} /\ c.op \in {"assign", "read"}}

NextCreate ==
    \/ NextOver(CreateCodes, InitFailures, {FALSE})
    \/ \E rnd \in Ids, fail \in InitFailures :
           CreateSessionGenerated(rnd, fail, FALSE) /\ UNCHANGED tvars

SpecCreate == Init /\ [][NextCreate]_vars

\* the calls of the manager next to the tool front end, which creates
\* sessions under generated ids
NextTool ==
    \/ NextOver(CreateCodes, {"none"}, {FALSE})
    \/ \E r_session_id \in Ids \cup {None}, rnd \in Ids, command \in CreateCodes,
          fail \in InitFailures :
           ExecuteRCommand(r_session_id, rnd, command, fail) /\ UNCHANGED tvars

SpecTool == Init /\ [][NextTool]_vars

\* guest code that leaves files and directories in the temp directory
CleanupCodes ==
    {c \in Codes : \/ c.op = "write" /\ c.write \in {"subdir", "jpg"}
                   \/ c.op = "write_stop"}

NextCleanup == NextOver(CleanupCodes, {"none"}, BOOLEAN)

SpecCleanup == Init /\ [][NextCleanup]_vars

\* the calls of the manager and the calls on an unusable session object; a
\* construction fails at new.env, before session_env is set
NextObject ==
    \/ NextOver(CreateCodes, {"none", "new_env"}, BOOLEAN)
    \/ \E code \in CreateCodes : Execute(code) /\ UNCHANGED tvars

SpecObject == Init /\ [][NextObject]_vars

\* guest code that writes plots, and files under a plot's name that are no
\* images
HarvestCodes ==
    {c \in Codes : c.op = "write" /\ c.write \in {"png", "bad"}}

NextHarvest == NextOver(HarvestCodes, {"none"}, {FALSE})

SpecHarvest == Init /\ [][NextHarvest]_vars

ErrorCodes ==
    {c \in Codes : \/ c.op \in {"stop", "parse_error", "host_error"}
                   \/ c.op = "write" /\ c.write = "subdir"}

NextErrors == NextOver(ErrorCodes, InitFailures, BOOLEAN)

SpecErrors == Init /\ [][NextErrors]_vars

(***************************************************************************)
(* Caller tasks.  A task makes the calls of its program one after another, *)
(* awaiting each.  self.r(wrapper_code) is a blocking call made on the     *)
(* event loop's thread: while an evaluation is in flight the loop runs no  *)
(* other task.                                                             *)
(***************************************************************************)
\* the calls of a program
CallCreate(id) == [op |-> "create_session", id |-> id, codes |-> {}]

CallExecute(id, codes) == [op |-> "execute_in_session", id |-> id, codes |-> codes]

CallDestroySession(id) == [op |-> "destroy_session", id |-> id, codes |-> {}]

CallDestroy == [op |-> "destroy", id |-> None, codes |-> {}]

Code(op, name, val) == [op |-> op, name |-> name, val |-> val, write |-> "none"]

\* a loop whose tasks run their blocking calls in executor threads
loop_idle_executor(r) == TRUE

\* the event loop can run a task: no blocking call is in progress on its thread
loop_idle(r) == r = {}

\* task t has a next call in program P, and it is an op
Pending(P, t, op) == pc[t] < Len(P[t]) /\ P[t][pc[t] + 1].op = op

\* task t has seen its call return
Advance(t) ==
    /\ pc' = [pc EXCEPT ![t] = @ + 1]
    /\ returned' = IF last'.op = "execute_in_session"
                   THEN [returned EXCEPT ![t] = last'.result] ELSE returned

\* task t calls execute_in_session: the call runs up to self.r(wrapper_code)
BeginExecute(P, t) ==
    /\ loop_idle(running)
    /\ Pending(P, t, "execute_in_session")
    /\ \A r \in running : r.task # t
    /\ \E code \in P[t][pc[t] + 1].codes :
          running' = running \cup {[task |-> t, id |-> P[t][pc[t] + 1].id, code |-> code,
                                    inst |-> InstOf(sessions, P[t][pc[t] + 1].id)]}
    /\ UNCHANGED <<sessions, nextInst, globalenv, envs, temp_dirs, assigned, last,
                   pc, returned>>
    /\ UNCHANGED cvars

\* the evaluation returns and the call of task t runs to its end; the
\* evaluation of repeat {} does not return
ReturnExecute(t) ==
    \E r \in running :
        /\ r.task = t
        /\ ~(r.code.op = "hang" /\ r.inst # 0)
        /\ ExecuteInSession(r.id, r.code)
        /\ running' = running \ {r}
        /\ Advance(t)

TaskCreate(P, t) ==
    /\ loop_idle(running)
    /\ Pending(P, t, "create_session")
    /\ CreateSession(P[t][pc[t] + 1].id, "none", FALSE)
    /\ Advance(t)
    /\ UNCHANGED running

TaskDestroySession(P, t) ==
    /\ loop_idle(running)
    /\ Pending(P, t, "destroy_session")
    /\ DestroySession(P[t][pc[t] + 1].id, FALSE)
    /\ Advance(t)
    /\ UNCHANGED running

TaskDestroy(P, t) ==
    /\ loop_idle(running)
    /\ Pending(P, t, "destroy")
    /\ Destroy([i \in AllIds |-> FALSE])
    /\ Advance(t)
    /\ UNCHANGED running

\* test_concurrent_interleaved_execution: each task creates its session, runs
\* the four commands on it and destroys it
CounterProgram ==
    [t \in Tasks |->
        <<CallCreate(TaskIds[t]),
          CallExecute(TaskIds[t], {Code("assign", "counter", Bases[t])}),
          CallExecute(TaskIds[t], {Code("build", "df", Bases[t])}),
          CallExecute(TaskIds[t], {Code("add", "counter", 0)}),
          CallExecute(TaskIds[t], {Code("read", "counter", 0)}),
          CallDestroySession(TaskIds[t])>>]

NextTasks ==
    \/ \E t \in Tasks : BeginExecute(CounterProgram, t)
    \/ \E t \in Tasks : ReturnExecute(t)
    \/ \E t \in Tasks : TaskCreate(CounterProgram, t)
    \/ \E t \in Tasks : TaskDestroySession(CounterProgram, t)

SpecTasks == Init /\ [][NextTasks]_vars

\* two tasks that each create a session and run one command in it, which may
\* never return, and a third that reads in the first one's session, destroys
\* it and then destroys everything
LoopProgram ==
    <<  <<CallCreate("A"), CallExecute("A", {Code("hang", "x", 0), Code("assign", "x", 100)})>>,
        <<CallCreate("B"), CallExecute("B", {Code("hang", "x", 0), Code("assign", "x", 200)})>>,
        <<CallExecute("A", {Code("read", "x", 0)}), CallDestroySession("A"), CallDestroy>>  >>

\* what task t can do next
TaskStep(P, t) ==
    \/ BeginExecute(P, t)
    \/ ReturnExecute(t)
    \/ TaskCreate(P, t)
    \/ TaskDestroySession(P, t)
    \/ TaskDestroy(P, t)

NextLoop ==
    \/ \E t \in Tasks : BeginExecute(LoopProgram, t)
    \/ \E t \in Tasks : ReturnExecute(t)
    \/ \E t \in Tasks : TaskCreate(LoopProgram, t)
    \/ \E t \in Tasks : TaskDestroySession(LoopProgram, t)
    \/ \E t \in Tasks : TaskDestroy(LoopProgram, t)

\* the event loop runs every task that is ready, and an evaluation that can
\* return does
SpecLoop ==
    Init /\ [][NextLoop]_vars /\ \A t \in Tasks : WF_vars(TaskStep(LoopProgram, t))

(***************************************************************************)
(* MPMarkerConverter                                                       *)
(***************************************************************************)
\* the converter state the operations below read and return
CState ==
    [pool |-> pool, startup_event |-> startup_event, pools |-> pools,
     nextPool |-> nextPool, frames |-> frames, done |-> done]

\* the module global worker_init_exception of the process that imported the
\* module and calls wait_for_startup: only _init_worker assigns it, and
\* _init_worker runs in the worker process, whose globals are its own
worker_init_exception == FALSE

\* the worker process of a pool has exited: the pool was terminated, or it
\* was closed and the worker has finished its initializer and every job
Exited(pl) ==
    \/ pl.state = "terminated"
    \/ pl.state = "closed" /\ pl.init # "pending" /\ pl.pending = 0 /\ ~pl.hung

\* the call of caller c returns ret or raises it; p is the pool the call
\* made (start) or worked on
finish(cs, c, op, ret, p) ==
    [cs EXCEPT !.frames[c] = Idle,
               !.done = [caller |-> c, op |-> op, ret |-> ret, pool |-> p]]

\* a start without the test of self._pool
start_unguarded(cs, c, fails) ==
    LET p == cs.nextPool + 1
        made == [state |-> "run", init |-> "pending", event |-> FALSE,
                 pending |-> 0, hung |-> FALSE]
    IN  IF fails
        THEN finish([cs EXCEPT !.startup_event = p, !.nextPool = p], c, "start", "OSError", 0)
        ELSE finish([cs EXCEPT !.startup_event = p, !.pool = p, !.nextPool = p,
                               !.pools[p] = made], c, "start", None, p)

\* MPMarkerConverter.start: synchronous; fails when multiprocessing.Pool
\* raises.  The _warmup job it submits does nothing and nobody reads its
\* result
start(cs, c, fails) ==
    LET p == cs.nextPool + 1
        made == [state |-> "run", init |-> "pending", event |-> FALSE,
                 pending |-> 0, hung |-> FALSE]
    IN  IF cs.pool # 0 THEN finish(cs, c, "start", None, 0)
        ELSE IF fails
        THEN finish([cs EXCEPT !.startup_event = p, !.nextPool = p], c, "start", "OSError", 0)
        ELSE finish([cs EXCEPT !.startup_event = p, !.pool = p, !.nextPool = p,
                               !.pools[p] = made], c, "start", None, p)

RECURSIVE async_shutdown(_, _, _)
RECURSIVE after_shutdown(_, _, _)

\* an async_shutdown that keeps self._pool until the pool is joined
async_shutdown_keeps_pool(cs, c, f) ==
    IF cs.pool = 0 THEN after_shutdown(cs, c, f)
    ELSE [cs EXCEPT !.frames[c] = [f EXCEPT !.at = "close", !.down = cs.pool]]

\* MPMarkerConverter.async_shutdown up to its first await, called by the
\* call f of caller c: without a pool it returns at once
async_shutdown(cs, c, f) ==
    IF cs.pool = 0 THEN after_shutdown(cs, c, f)
    ELSE [cs EXCEPT !.pool = 0, !.startup_event = 0,
                    !.frames[c] = [f EXCEPT !.at = "close", !.down = cs.pool]]

\* async_shutdown has returned to the call f: a handler that is itself inside
\* the try of wait_for_startup calls it once more, then the call raises, or
\* returns None when it was async_shutdown itself
after_shutdown(cs, c, f) ==
    IF f.again THEN async_shutdown(cs, c, [f EXCEPT !.again = FALSE])
    ELSE finish(cs, c, f.op, f.exc, f.pool)

\* pool_to_shutdown.close has run in the executor, or has raised
async_shutdown_closed(cs, c, fails) ==
    LET f == cs.frames[c]
    IN  IF fails THEN [cs EXCEPT !.frames[c].at = "terminate"]
        ELSE [cs EXCEPT !.frames[c].at = "join",
                        !.pools[f.down].state = IF @ = "run" THEN "closed" ELSE @]

\* pool_to_shutdown.terminate has run in the executor
async_shutdown_terminated(cs, c) ==
    LET f == cs.frames[c]
    IN  [cs EXCEPT !.frames[c].at = "join", !.pools[f.down].state = "terminated"]

\* a finally that clears self._pool whatever it holds
async_shutdown_joined_clears(cs, c) ==
    LET f == cs.frames[c]
    IN  after_shutdown([cs EXCEPT !.pool = 0, !.startup_event = 0], c, f)

\* pool_to_shutdown.join has returned, the finally of async_shutdown
async_shutdown_joined(cs, c) ==
    LET f == cs.frames[c]
        cleared == IF cs.pool = f.down
                   THEN [cs EXCEPT !.pool = 0, !.startup_event = 0] ELSE cs
    IN  after_shutdown(cleared, c, f)

\* a wait_for_startup without the test of the pool and the event
wait_for_startup_unguarded(cs, c, timed) ==
    [cs EXCEPT !.frames[c] = [Idle EXCEPT !.op = "wait_for_startup", !.at = "wait",
                                          !.pool = cs.pool, !.event = cs.startup_event,
                                          !.timed = timed]]

\* MPMarkerConverter.wait_for_startup up to its await of Event.wait
wait_for_startup(cs, c, timed) ==
    IF cs.startup_event = 0 \/ cs.pool = 0
    THEN finish(cs, c, "wait_for_startup", "RuntimeError: Converter pool not started", 0)
    ELSE [cs EXCEPT !.frames[c] = [Idle EXCEPT !.op = "wait_for_startup", !.at = "wait",
                                               !.pool = cs.pool, !.event = cs.startup_event,
                                               !.timed = timed]]

\* Event.wait has returned ready: the rest of wait_for_startup
wait_for_startup_waited(cs, c, ready) ==
    LET f == cs.frames[c]
    IN  IF ~ready
        THEN async_shutdown(cs, c, [f EXCEPT !.exc = "TimeoutError: Converter startup timed out",
                                             !.again = TRUE])
        ELSE IF worker_init_exception
        THEN async_shutdown(cs, c,
                 [f EXCEPT !.exc = "RuntimeError: Worker failed to initialize during startup",
                           !.again = TRUE])
        ELSE finish(cs, c, "wait_for_startup", "True", f.pool)

\* MPMarkerConverter.convert up to its await of pool.apply_async
convert(cs, c, is_file) ==
    IF cs.pool = 0
    THEN finish(cs, c, "convert", "RuntimeError: Converter pool not running", 0)
    ELSE IF ~is_file THEN finish(cs, c, "convert", "FileNotFoundError", cs.pool)
    ELSE [cs EXCEPT !.frames[c] = [Idle EXCEPT !.op = "convert", !.at = "submit",
                                               !.pool = cs.pool]]

\* pool.apply_async has run in the executor: it raises on a pool that is no
\* longer running, outside the try of convert
convert_submitted(cs, c) ==
    LET f == cs.frames[c]
    IN  IF cs.pools[f.pool].state # "run"
        THEN finish(cs, c, "convert", "ValueError: Pool not running", f.pool)
        ELSE [cs EXCEPT !.frames[c].at = "get", !.frames[c].job = "queued",
                        !.pools[f.pool].pending = @ + 1]

\* a convert whose handlers raise without async_shutdown
convert_got_no_shutdown(cs, c) ==
    LET f == cs.frames[c]
    IN  CASE f.job = "ok" -> finish(cs, c, "convert", "ConversionResult", f.pool)
          [] f.job = "queued" ->
                finish(cs, c, "convert", "TimeoutError: Conversion timed out", f.pool)
          [] OTHER -> finish(cs, c, "convert", "RuntimeError: Conversion failed", f.pool)

\* a convert that shuts the pool down after a result too
convert_got_shutdown_always(cs, c) ==
    LET f == cs.frames[c]
    IN  CASE f.job = "ok" ->
                async_shutdown(cs, c, [f EXCEPT !.job = "none", !.exc = "ConversionResult"])
          [] f.job = "queued" ->
                async_shutdown(cs, c, [f EXCEPT !.job = "none",
                                                !.exc = "TimeoutError: Conversion timed out"])
          [] OTHER ->
                async_shutdown(cs, c, [f EXCEPT !.job = "none",
                                                !.exc = "RuntimeError: Conversion failed"])

\* async_result.get(timeout) has returned or raised: the rest of convert.  A
\* job that is still queued or running makes it raise
\* multiprocessing.TimeoutError
convert_got(cs, c) ==
    LET f == cs.frames[c]
    IN  CASE f.job = "ok" -> finish(cs, c, "convert", "ConversionResult", f.pool)
          [] f.job = "queued" ->
                async_shutdown(cs, c, [f EXCEPT !.job = "none",
                                                !.exc = "TimeoutError: Conversion timed out"])
          [] OTHER ->
                async_shutdown(cs, c, [f EXCEPT !.job = "none",
                                                !.exc = "RuntimeError: Conversion failed"])

\* _init_worker in the worker of pool p: the converter is built or the
\* exception is kept in the worker's global; the event is set in both cases
init_worker(cs, p, ok) ==
    [cs EXCEPT !.pools[p].init = IF ok THEN "ok" ELSE "failed",
               !.pools[p].event = TRUE]

\* what a job can come to in a worker: after a failed initializer
\* _convert_pdf raises at once; otherwise it returns a ConversionResult,
\* raises, or never returns.  "bad_shape" is a result that is no
\* ConversionResult, which convert tests for
JobOutcomes(pl) ==
    IF pl.init = "failed" THEN {"raised"} ELSE {"ok", "bad_shape", "raised", "hung"}

\* _convert_pdf in the worker of pool p, for the job of caller c, or for a job
\* whose convert has given up (c = 0)
convert_pdf(cs, p, c, outcome) ==
    LET worked == IF outcome = "hung" THEN [cs EXCEPT !.pools[p].hung = TRUE]
                  ELSE [cs EXCEPT !.pools[p].pending = @ - 1]
    IN  IF c = 0 \/ outcome = "hung" THEN worked
        ELSE [worked EXCEPT !.frames[c].job = outcome]

\* the converter state after a step
CBecomes(cs) ==
    /\ pool' = cs.pool
    /\ startup_event' = cs.startup_event
    /\ pools' = cs.pools
    /\ nextPool' = cs.nextPool
    /\ frames' = cs.frames
    /\ done' = cs.done
    /\ UNCHANGED <<mvars, tvars>>

IsIdle(c) == frames[c].op = "idle"

\* the calls a task makes on the converter
Start(c, fails) ==
    /\ IsIdle(c)
    /\ pool = 0 => nextPool < MaxPools
    /\ \E r \in {start(CState, c, fails)} : CBecomes(r)

WaitForStartup(c, timed) ==
    /\ IsIdle(c)
    /\ \E r \in {wait_for_startup(CState, c, timed)} : CBecomes(r)

Convert(c, is_file) ==
    /\ IsIdle(c)
    /\ \E r \in {convert(CState, c, is_file)} : CBecomes(r)

AsyncShutdown(c) ==
    /\ IsIdle(c)
    /\ \E r \in {async_shutdown(CState,
                                c, [Idle EXCEPT !.op = "async_shutdown", !.pool = pool])} :
           CBecomes(r)

\* the event loop resumes a call whose executor future is done
Waited(c) ==
    /\ frames[c].at = "wait"
    /\ \E ready \in BOOLEAN :
         /\ ready => pools[frames[c].event].event
         /\ ~ready => frames[c].timed /\ ~pools[frames[c].event].event
         /\ \E r \in {wait_for_startup_waited(CState, c, ready)} : CBecomes(r)

Submitted(c) ==
    /\ frames[c].at = "submit"
    /\ \E r \in {convert_submitted(CState, c)} : CBecomes(r)

Got(c) ==
    /\ frames[c].at = "get"
    /\ \E r \in {convert_got(CState, c)} : CBecomes(r)

Closed(c) ==
    /\ frames[c].at = "close"
    /\ \E fails \in BOOLEAN :
         \E r \in {async_shutdown_closed(CState, c, fails)} : CBecomes(r)

Terminated(c) ==
    /\ frames[c].at = "terminate"
    /\ \E r \in {async_shutdown_terminated(CState, c)} : CBecomes(r)

Joined(c) ==
    /\ frames[c].at = "join"
    /\ Exited(pools[frames[c].down])
    /\ \E r \in {async_shutdown_joined(CState, c)} : CBecomes(r)

\* the worker process of pool p
InitWorker(p) ==
    /\ pools[p].state \in {"run", "closed"}
    /\ pools[p].init = "pending"
    /\ \E ok \in BOOLEAN :
         \E r \in {init_worker(CState, p, ok)} : CBecomes(r)

\* the jobs of pool p that no convert waits for any more
Abandoned(p) ==
    pools[p].pending
      - Cardinality({c \in Callers : frames[c].pool = p /\ frames[c].job = "queued"})

ConvertPdf(p) ==
    /\ pools[p].state \in {"run", "closed"}
    /\ pools[p].init # "pending"
    /\ ~pools[p].hung
    /\ pools[p].pending > 0
    /\ \E c \in {0} \cup Callers, outcome \in JobOutcomes(pools[p]) :
         /\ c = 0 => Abandoned(p) > 0
         /\ c # 0 => frames[c].pool = p /\ frames[c].job = "queued"
         /\ \E r \in {convert_pdf(CState, p, c, outcome)} : CBecomes(r)

\* the steps that resume the call of caller c
Resume(c) ==
    \/ Waited(c)
    \/ Submitted(c)
    \/ Got(c)
    \/ Closed(c)
    \/ Terminated(c)
    \/ Joined(c)

\* the steps of the worker of pool p
Worker(p) ==
    \/ InitWorker(p)
    \/ ConvertPdf(p)

NextConverter ==
    \/ \E c \in Callers, fails \in BOOLEAN : Start(c, fails)
    \/ \E c \in Callers, timed \in BOOLEAN : WaitForStartup(c, timed)
    \/ \E c \in Callers, is_file \in BOOLEAN : Convert(c, is_file)
    \/ \E c \in Callers : AsyncShutdown(c)
    \/ \E c \in Callers : Waited(c)
    \/ \E c \in Callers : Submitted(c)
    \/ \E c \in Callers : Got(c)
    \/ \E c \in Callers : Closed(c)
    \/ \E c \in Callers : Terminated(c)
    \/ \E c \in Callers : Joined(c)
    \/ \E p \in PoolIds : InitWorker(p)
    \/ \E p \in PoolIds : ConvertPdf(p)

SpecConverter == Init /\ [][NextConverter]_vars

\* the event loop resumes every call whose future is done, the executor runs
\* what it is given, the timeout of async_result.get expires, and a worker
\* process runs
SpecConverterFair ==
    /\ Init /\ [][NextConverter]_vars
    /\ \A c \in Callers : WF_vars(Resume(c))
    /\ \A p \in PoolIds : WF_vars(Worker(p))

\* guest code that makes the temp directory impossible to remove
ShutdownCodes == {c \in Codes : c.op = "write" /\ c.write = "subdir"}

\* the shutdown paths of both components: one session created, used and
\* destroyed with cleanup steps that fail, AsyncRSession.destroy repeated on
\* the destroyed object, next to start and async_shutdown calls on the
\* converter from two tasks
NextShutdown ==
    \/ CreateSession("A", "none", FALSE) /\ UNCHANGED tvars
    \/ \E code \in ShutdownCodes : ExecuteInSession("A", code) /\ UNCHANGED tvars
    \/ \E rFails \in BOOLEAN : DestroySession("A", rFails) /\ UNCHANGED tvars
    \/ \E rFails \in BOOLEAN : DestroyAgain(rFails) /\ UNCHANGED tvars
    \/ \E c \in Callers : Start(c, FALSE)
    \/ \E c \in Callers : AsyncShutdown(c)
    \/ \E c \in Callers : Closed(c)
    \/ \E c \in Callers : Terminated(c)
    \/ \E c \in Callers : Joined(c)
    \/ \E p \in PoolIds : InitWorker(p)

SpecShutdown == Init /\ [][NextShutdown]_vars

(***************************************************************************)
(* Properties                                                              *)
(***************************************************************************)
Executed == last.op = "execute_in_session" /\ last.inst # 0

Succeeded == last.result.successful_output # None

UnchangedProgram == UNCHANGED <<sessions, nextInst, globalenv, envs, temp_dirs>>

FreshPlot == [kind |-> "png", old |-> FALSE]

\* the temp directory of an instance is gone, or holds only what os.remove cannot remove
Removed(dirs, i) ==
    \/ ~dirs[i].exists
    \/ /\ dirs[i].files # {}
       /\ \A f \in dirs[i].files : f.kind = "subdir"

\* C1: a read of a name in a session returns the value that session's own
\* code last assigned to it, whatever other sessions assigned to the same
\* name in between.
C1_SessionIsolation ==
    (/\ Executed
     /\ last.code.op = "read"
     /\ last.code.name \in AssignNames
     /\ assigned[last.inst][last.code.name] # Unbound)
    => /\ last.value = assigned[last.inst][last.code.name]
       /\ last.result = ExecutionResult(ToStr(last.value.v), None, None, {})

\* C1 witness: a session reads back its 100 while the other registered
\* session holds 200 under the same name.
C1_Witness ==
    /\ Executed /\ last.code.op = "read" /\ last.code.name = "x"
    /\ last.result.successful_output = "[1] 100"
    /\ \E i \in Insts : i # last.inst /\ assigned[i]["x"].v = 200

\* C2: with two or more live sessions, no read in a session resolves to a
\* value that an execute call in another live session produced: what the
\* submitted code and the wrapper bind while executing in a session is out of
\* reach of the others.
C2_NoCrossSessionLeak ==
    (Executed /\ Succeeded /\ last.code.op = "read")
    => ~\E k \in DOMAIN sessions :
           sessions[k].inst # last.inst /\ sessions[k].inst = last.value.by

\* C3: the path generator called in a registered session names that
\* session's own temp directory, and a plot written by a successful call is
\* among the images of that call.
C3_ImagePathOwnership ==
    /\ \A k \in DOMAIN sessions :
          img_dest_dir(State, sessions[k].session_env) = sessions[k].inst
    /\ (Executed /\ Succeeded /\ last.code.write = "png")
          => FreshPlot \in last.result.images

\* C4: with a single session, every plot file written during an execute call
\* is consumed before the call returns, and no image of a call was written by
\* an earlier call.
C4_NoImageLeakBetweenCalls ==
    (Executed /\ nextInst = 1)
    => /\ \A i \in Insts : FreshPlot \notin temp_dirs[i].files
       /\ \A f \in last.result.images : ~f.old

CollidingCreate == last.op = "create_session" /\ last.prev # 0 /\ ~last.raised

C6_FailedCreateKeepsRegistry ==
    [][(last'.op = "create_session" /\ last'.raised) => sessions' = sessions]_vars

\* C7: execute_in_session on an id that is not registered returns the
\* 'does not exist' result without raising and changes nothing.
C7_ExecuteUnknownSession ==
    [][(last'.op = "execute_in_session" /\ last'.id \notin SessionIds(sessions))
        => /\ last'.result = ExecutionResult(None, None, DoesNotExist(last'.id), {})
           /\ ~last'.raised
           /\ UnchangedProgram]_vars

\* C7 witness: the call was made on an id that is not registered while
\* another session is.
C7_Witness ==
    /\ last.op = "execute_in_session" /\ last.inst = 0
    /\ last.result.system_error_output = DoesNotExist(last.id)
    /\ sessions # <<>>

\* C8: destroy_session returns True exactly when the id was registered, the
\* id is not registered afterwards, and a second call on the id right after a
\* first returns False.
C8_DestroySessionResult ==
    /\ [](last.op = "destroy_session"
            => /\ last.ret = (IF last.prev # 0 THEN "True" ELSE "False")
               /\ ~last.raised
               /\ last.id \notin SessionIds(sessions))
    /\ [][(last.op = "destroy_session" /\ last'.op = "destroy_session" /\ last'.id = last.id)
            => last'.ret = "False"]_vars

\* C8 witness: a destroy_session on a registered id has returned True and
\* left the other session registered.
C8_Witness ==
    /\ last.op = "destroy_session" /\ last.ret = "True"
    /\ sessions # <<>>

\* C9: when a cleanup step of the session fails, destroy_session still
\* removes the entry, returns True and raises nothing.
C9_DestroyDespiteCleanupFailure ==
    (last.op = "destroy_session" /\ last.failed)
    => /\ last.ret = "True"
       /\ ~last.raised
       /\ last.id \notin SessionIds(sessions)
       /\ \A k \in DOMAIN sessions : sessions[k].inst # last.inst

\* C9 witness: the temp directory of the destroyed session could not be
\* removed, and the session is gone from the registry.
C9_Witness ==
    /\ last.op = "destroy_session" /\ last.failed /\ last.ret = "True"
    /\ temp_dirs[last.inst].exists
    /\ last.id \notin SessionIds(sessions)

\* C10: destroy leaves the registry empty, also when a cleanup step fails;
\* every session registered when it is called has been through its cleanup;
\* with nothing registered it changes nothing.
C10_ManagerDestroy ==
    [][last'.op = "destroy"
        => /\ sessions' = <<>>
           /\ \A k \in DOMAIN sessions :
                 /\ Removed(temp_dirs', sessions[k].inst)
                 /\ ~last'.failed => globalenv'.session_env[sessions[k].id] = 0
           /\ sessions = <<>> => (UnchangedProgram /\ UNCHANGED assigned)]_vars

\* C10 witness: destroy was called with two sessions registered, a cleanup
\* step failed, and the registry is empty.
C10_Witness ==
    /\ last.op = "destroy" /\ last.count = 2 /\ last.failed
    /\ sessions = <<>>

\* the outcome fields of a result that are set
Populated(r) ==
    {f \in {"successful_output", "r_error_output", "system_error_output"} : r[f] # None}

\* the outcome fields of a result that hold text
NonEmpty(r) == {f \in Populated(r) : r[f] # ""}

\* the guest code of the last call was evaluated without error
Evaluated == Executed /\ last.value # Unbound

\* C11: every result of execute_in_session, for a registered id or not and on
\* every path of AsyncRSession.execute, has at most one of the three outcome
\* fields set, and has images only when successful_output is the field set.
C11_ResultInvariant ==
    last.op = "execute_in_session"
    => /\ Cardinality(Populated(last.result)) <= 1
       /\ Cardinality(NonEmpty(last.result)) <= 1
       /\ last.result.images # {} => Populated(last.result) = {"successful_output"}

\* C11 witness: a call that failed on the Python side has returned
\* system_error_output alone while a plot file waits in the temp directory.
C11_Witness ==
    /\ Executed /\ last.code.op = "host_error"
    /\ Populated(last.result) = {"system_error_output"}
    /\ last.result.images = {}
    /\ \E f \in temp_dirs[last.inst].files : f.kind = "png"

\* C12 as claimed: a call whose code is evaluated without error returns a
\* result with exactly one outcome field that holds text.
C12_ExactlyOneNonEmpty ==
    Evaluated => Cardinality(NonEmpty(last.result)) = 1

\* C12 as amended: such a call returns a result whose only set outcome field
\* is successful_output, and that field is the empty string exactly when the
\* code printed nothing and its value is NULL.
C12_ExactlyOneSet ==
    Evaluated
    => /\ Populated(last.result) = {"successful_output"}
       /\ (last.result.successful_output = "")
             <=> (last.value = RNull /\ last.code.op \in {"null", "write_null", "read"})

\* C12 witness: the empty code string has returned the empty string as its
\* successful output.
C12_Witness ==
    /\ Evaluated /\ last.code.op = "null"
    /\ last.result = ExecutionResult("", None, None, {})

\* C13: for as long as a session is registered, session_env_<id> is its own
\* environment and holds under each name the value the session's code last
\* assigned to it; a read of the name in any later call of the session
\* succeeds with that value, whatever calls came in between.
C13_SequentialState ==
    /\ [](\A k \in DOMAIN sessions :
            /\ globalenv.session_env[sessions[k].id] = sessions[k].inst
            /\ \A n \in AssignNames :
                  envs[sessions[k].inst][n] = assigned[sessions[k].inst][n])
    /\ [][(/\ last'.op = "execute_in_session"
           /\ last'.inst # 0
           /\ last'.code.op = "read"
           /\ last'.code.name \in AssignNames
           /\ assigned[last'.inst][last'.code.name] # Unbound)
          => /\ last'.result.successful_output
                   = ToStr(assigned[last'.inst][last'.code.name].v)
             /\ assigned' = assigned
             /\ envs' = envs]_vars

\* C13 witness: a session reads back the 200 its environment holds while two
\* sessions are registered.
C13_Witness ==
    /\ Executed /\ last.code.op = "read" /\ last.code.name = "x"
    /\ last.result.successful_output = "[1] 200"
    /\ envs[last.inst]["x"] = [v |-> 200, by |-> last.inst]
    /\ Cardinality(DOMAIN sessions) = 2

\* the final values of the tasks of test_concurrent_interleaved_execution
Expected == <<403, 803, 1203>>

\* C14: in every interleaving of the tasks' calls, the read of counter that
\* ends a task's sequence returns the value the sequence gives when run
\* alone: 403, 803 and 1203 for the bases 100, 200 and 300.
C14_ConcurrentSequences ==
    \A t \in Tasks :
        pc[t] >= 5
        => returned[t] = ExecutionResult("[1] " \o ToString(Expected[t]), None, None, {})

\* C14 witness: the first task has read its 403 while the second is in the
\* middle of its sequence and a call of the third is in flight.
C14_Witness ==
    /\ pc[1] = 5 /\ returned[1].successful_output = "[1] 403"
    /\ pc[2] = 3
    /\ \E r \in running : r.task = 3 /\ r.code.op = "add"

\* C15: with a single session, a successful call whose code writes one plot
\* file returns exactly one image, the first time and every time after, and a
\* successful call that writes none returns no image.
C15_ImageRoundTrip ==
    (Executed /\ Succeeded /\ nextInst = 1)
    => /\ last.code.write = "png" => Cardinality(last.result.images) = 1
       /\ last.code.write = "none" => last.result.images = {}

\* C16: with a single session, a file that the code of a successful call
\* writes at the generator's path is among the images of that call, whatever
\* its extension.
C16_AnyExtensionReturned ==
    (Executed /\ Succeeded /\ nextInst = 1 /\ last.code.write \in {"png", "jpg"})
    => \E f \in last.result.images : f.kind = last.code.write

\* C17: execute_in_session, destroy_session and destroy never raise, whatever
\* fails in the guest code, on the Python side or in the cleanup;
\* create_session raises exactly when the new session was not constructed,
\* also when the cleanup of the session it replaces fails.
C17_ErrorPropagation ==
    /\ last.op \in {"execute_in_session", "destroy_session", "destroy"} => ~last.raised
    /\ last.op = "create_session"
          => /\ last.raised <=> InstOf(sessions, last.id) # last.inst
             /\ last.raised <=> last.ret = None

\* C17 witness: a failure on the Python side of an execute call has come back
\* as system_error_output.
C17_Witness ==
    /\ Executed /\ last.code.op = "host_error" /\ ~last.raised
    /\ last.result = ExecutionResult(None, None, python_error("AttributeError"), {})

\* the evaluations in flight
Evaluations == {r \in running : r.inst # 0}

\* C18: while the evaluation of an execute call on one session is in flight,
\* the next call of another task, when it is on a different session, can
\* start.
C18_CrossSessionParallelism ==
    \A r \in Evaluations, t \in Tasks :
        (/\ t # r.task
         /\ pc[t] < Len(LoopProgram[t])
         /\ LoopProgram[t][pc[t] + 1].op \in {"create_session", "execute_in_session"}
         /\ LoopProgram[t][pc[t] + 1].id # r.id)
        => ENABLED TaskStep(LoopProgram, t)

DestroySessionWaits ==
    \E t \in Tasks, r \in Evaluations :
        /\ r.task # t
        /\ Pending(LoopProgram, t, "destroy_session")
        /\ LoopProgram[t][pc[t] + 1].id = r.id

\* a task's next call is destroy() while another task's evaluation is in flight
DestroyWaits ==
    \E t \in Tasks, r \in Evaluations : r.task # t /\ Pending(LoopProgram, t, "destroy")

\* C20: a destroy_session(id) that is a task's next call while an evaluation
\* on id is in flight eventually returns True with id out of the registry, and
\* a destroy() that is a task's next call while an evaluation is in flight
\* eventually returns with the registry empty, also when the evaluation never
\* returns.
C20_ForcedCancellation ==
    /\ DestroySessionWaits
          ~> (/\ last.op = "destroy_session" /\ last.ret = "True"
              /\ last.id \notin SessionIds(sessions))
    /\ DestroyWaits ~> (last.op = "destroy" /\ sessions = <<>>)

\* a registered session is fully initialised: its id is registered once, its
\* object holds its environment, session_env_<id> is bound to that
\* environment and its temp directory exists
FullyInitialised(k) ==
    /\ \A j \in DOMAIN sessions : sessions[j].id = sessions[k].id => j = k
    /\ sessions[k].session_env = sessions[k].inst
    /\ globalenv.session_env[sessions[k].id] = sessions[k].inst
    /\ temp_dirs[sessions[k].inst].exists

\* C21: in every interleaving of the calls, with constructions and cleanup
\* steps that fail, every registered id maps to a fully initialised session,
\* and an execute_in_session that evaluates code does so in a session that is
\* registered and initialised before and after the call: none whose
\* destruction has begun.
C21_RegistryAtomicity ==
    /\ [](\A k \in DOMAIN sessions : FullyInitialised(k))
    /\ [][(last'.op = "execute_in_session" /\ last'.inst # 0)
            => /\ InstOf(sessions, last'.id) = last'.inst
               /\ sessions' = sessions
               /\ temp_dirs'[last'.inst].exists
               /\ globalenv'.session_env[last'.id] = last'.inst]_vars

\* C21 witness: a construction failed after the new environment was bound;
\* the id is not registered while the other session is.
C21_Witness ==
    /\ last.op = "create_session" /\ last.raised
    /\ globalenv.session_env[last.id] = last.inst
    /\ last.id \notin SessionIds(sessions)
    /\ sessions # <<>>

\* C22: a create_session that returns has returned the id under which the new
\* session object is registered, the given id when one was given and a
\* generated one otherwise, and an execute_in_session on the returned id right
\* after it is dispatched to the new session.
C22_CreateReturnsId ==
    /\ []((last.op = "create_session" /\ ~last.raised)
            => /\ last.ret = last.id
               /\ last.given # None => last.ret = last.given
               /\ last.given = None => last.ret \in Ids
               /\ InstOf(sessions, last.ret) = last.inst)
    /\ [][(/\ last.op = "create_session" /\ ~last.raised
            /\ last'.op = "execute_in_session" /\ last'.id = last.ret)
            => /\ last'.inst = last.inst
               /\ last'.result.system_error_output # DoesNotExist(last.ret)]_vars

\* C22 witness: a create_session without an id returned a generated id that
\* was in use; the session registered under it is the new one.
C22_Witness ==
    /\ last.op = "create_session" /\ ~last.raised
    /\ last.given = None /\ last.ret \in Ids
    /\ last.prev # 0
    /\ InstOf(sessions, last.ret) = last.inst

\* the last call was an execute_in_session that returned r_error_output
ReturnedRError == Executed /\ last.result.r_error_output # None

\* C23: an execute_in_session that returns r_error_output leaves the registry
\* and the bindings of every session as they were, and the next call in the
\* same session succeeds when it assigns or reads a name bound there, the
\* read with the value bound before the error.
C23_ErrorLeavesUsable ==
    /\ [][(last'.op = "execute_in_session" /\ last'.inst # 0
            /\ last'.result.r_error_output # None)
            => /\ sessions' = sessions
               /\ envs' = envs
               /\ globalenv' = globalenv]_vars
    /\ [][(/\ ReturnedRError
            /\ last'.op = "execute_in_session" /\ last'.id = last.id
            /\ \/ last'.code.op = "assign"
               \/ last'.code.op = "read" /\ envs[last.inst][last'.code.name] # Unbound)
            => /\ last'.inst = last.inst
               /\ last'.result.successful_output # None
               /\ last'.code.op = "read"
                    => last'.value = envs[last.inst][last'.code.name]]_vars

\* C23 witness: stop() returned its message in a registered session that
\* still holds the x bound by an earlier call.
C23_Witness ==
    /\ ReturnedRError /\ last.code.op = "stop"
    /\ InstOf(sessions, last.id) = last.inst
    /\ envs[last.inst].x = [v |-> 100, by |-> last.inst]

\* C24: execute classifies the three failures: stop(), a plot device that
\* cannot open its file and a read of an unbound name yield r_error_output
\* equal to R's message, a syntax error yields
\* r_error_output with the prefix "R parsing error: ", an exception of the
\* host yields system_error_output holding its message and a traceback; in
\* each case the other two fields are None and images is empty.
C24_OutcomeClassification ==
    Executed =>
        /\ last.code.op = "stop"
             => last.result = ExecutionResult(None, "stop", None, {})
        /\ last.code.op = "write_stop"
             => \E m \in {"stop", "unable to start png() device"} :
                    last.result = ExecutionResult(None, m, None, {})
        /\ (last.code.op \in {"read", "print", "cat"} /\ last.value = Unbound)
             => last.result = ExecutionResult(None, "object not found", None, {})
        /\ last.code.op = "parse_error"
             => /\ last.result = ExecutionResult(
                                     None, "R parsing error: unexpected end of input", None, {})
                /\ startswith(last.result.r_error_output, "R parsing error: ")
        /\ last.code.op = "host_error"
             => /\ last.result.successful_output = None
                /\ last.result.r_error_output = None
                /\ last.result.images = {}
                /\ startswith(last.result.system_error_output, "Python error: AttributeError")
                /\ contains(last.result.system_error_output, "Traceback")

\* C24 witness: a syntax error was reported with the prefix, with no image,
\* in a session whose directory holds a plot an earlier failing call left.
C24_Witness ==
    /\ Executed /\ last.code.op = "parse_error"
    /\ last.result.r_error_output = "R parsing error: unexpected end of input"
    /\ \E f \in temp_dirs[last.inst].files : f.kind = "png"

\* the failures of __init__ while it initialises the environment
EnvFailures == {"new_env", "setup"}

\* C25: in every reachable state, a create_session whose construction fails
\* while the environment is initialised raises, leaves no session registered
\* under the id (one registered before included) and leaves no temp directory
\* of the failed session; the same holds of the state after a create_session
\* that raised.
C25_ConstructionFailure ==
    /\ (last.op = "create_session" /\ last.raised)
         => /\ last.id \notin SessionIds(sessions)
            /\ \A k \in DOMAIN sessions : sessions[k].inst # last.inst
            /\ ~temp_dirs[last.inst].exists
    /\ nextInst < MaxInst
         => \A id \in Ids, fail \in EnvFailures, rFails \in BOOLEAN :
              LET r == create_session(State, id, nextInst + 1, fail, rFails)
              IN  /\ r.raised
                  /\ r.ret = None
                  /\ id \notin SessionIds(r.st.sessions)
                  /\ ~r.st.temp_dirs[nextInst + 1].exists

\* C25 witness: a create_session on a registered id raised after the new
\* environment was bound; its temp directory is gone and the id is free.
C25_Witness ==
    /\ last.op = "create_session" /\ last.raised
    /\ last.prev # 0
    /\ globalenv.session_env[last.id] = last.inst
    /\ ~temp_dirs[last.inst].exists
    /\ last.id \notin SessionIds(sessions)

\* C26: in every reachable state, AsyncRSession.destroy of a registered
\* session does not raise, whether or not the removal of the R environment
\* fails; it leaves in the temp directory only the entries that cannot be
\* removed, and no directory when there is none; the same holds of the state
\* after a destroy_session of a registered session.
C26_BestEffortCleanup ==
    /\ \A k \in DOMAIN sessions, rFails \in BOOLEAN :
          LET s == sessions[k]
              d == AsyncRSession_destroy(State, s, rFails)
          IN  /\ ~d.raised
              /\ \A f \in d.st.temp_dirs[s.inst].files : f.kind = "subdir"
              /\ (\A f \in temp_dirs[s.inst].files : f.kind # "subdir")
                   => ~d.st.temp_dirs[s.inst].exists
    /\ (last.op = "destroy_session" /\ last.prev # 0)
         => ~last.raised /\ Removed(temp_dirs, last.prev)

\* C26 witness: a destroy_session whose removal of the R environment failed
\* (session_env_<id> is still bound) has removed the temp directory, while
\* the directory of another session holds an entry that cannot be removed
\* next to a file that can.
C26_Witness ==
    /\ last.op = "destroy_session" /\ last.prev # 0 /\ last.failed
    /\ globalenv.session_env[last.id] = last.prev
    /\ ~temp_dirs[last.prev].exists
    /\ \E k \in DOMAIN sessions :
          /\ \E f \in temp_dirs[sessions[k].inst].files : f.kind = "subdir"
          /\ \E f \in temp_dirs[sessions[k].inst].files : f.kind # "subdir"

\* the instances of the registered sessions
Registered == {sessions[k].inst : k \in DOMAIN sessions}

\* C27: with no failing construction and no failing cleanup step, the temp
\* directories that exist and the session environments R still holds (bound
\* as session_env_<id> or reachable from a binding of the global
\* environment) are exactly those of the registered sessions.
C27_ResourceReclamation ==
    /\ {i \in Insts : temp_dirs[i].exists} = Registered
    /\ {globalenv.session_env[id] : id \in AllIds} \ {0} = Registered
    /\ Reachable(globalenv) \ {0} = Registered

\* C28: AsyncRSession.execute on a session object whose environment was never
\* initialised, or whose destroy has completed, does not raise, returns
\* system_error_output "R session not properly initialized" with the other
\* fields unset, and evaluates no guest code.
C28_ExecuteUnusable ==
    last.op = "execute"
        => /\ ~last.raised
           /\ last.result =
                ExecutionResult(None, None, "R session not properly initialized", {})
           /\ last.value = Unbound

\* the plot files of directory i that decode
Decodable(dirs, i) == {f \in dirs[i].files : f.kind = "png"}

\* C29: an execute_in_session whose guest code evaluates without error
\* returns a successful result also when a file under a plot's name in its
\* directory does not decode: every plot file that decodes, left by earlier
\* calls or written by this one, is among the images and is gone from the
\* directory afterwards.
C29_HarvestToleratesBadFile ==
    [][(last'.op = "execute_in_session" /\ last'.inst # 0 /\ last'.value # Unbound)
        => /\ last'.result.successful_output # None
           /\ ~last'.raised
           /\ {[f EXCEPT !.old = TRUE] : f \in Decodable(temp_dirs, last'.inst)}
                 \subseteq last'.result.images
           /\ (last'.code.write = "png" /\ globalenv.img_func = last'.inst)
                 => FreshPlot \in last'.result.images
           /\ Decodable(temp_dirs', last'.inst) = {}]_vars

\* C29 witness: a call returned its plot while a file that does not decode
\* lies in the directory of its session.
C29_Witness ==
    /\ Executed /\ Succeeded
    /\ FreshPlot \in last.result.images
    /\ \E f \in temp_dirs[last.inst].files : f.kind = "bad"

\* the console text of the guest code of the last call
Console(code, value) ==
    CASE code.op = "print" -> ToStr(value.v)
      [] code.op = "print_list" -> ToStr(RList.v)
      [] code.op \in {"cat", "cat_null", "cat_list"} -> "hello"
      [] OTHER -> ""

\* C30: the successful_output of a successful call is the console text alone
\* when the text of the value is empty or is a substring of it, the text of
\* the value alone when the console text is empty, and the console text
\* followed by the text of the value otherwise.
C30_OutputMerge ==
    (Executed /\ Succeeded) =>
        LET o == Console(last.code, last.value)
            v == ToStr(last.value.v)
            c == last.result.successful_output
        IN  /\ o = "" => c = v
            /\ v = "" => c = o
            /\ (o # "" /\ v # "" /\ contains(o, v)) => c = o
            /\ (o # "" /\ v # "" /\ ~contains(o, v)) => c = o \o "\n" \o v

\* the convert of caller c has seen async_result.get time out
GetTimedOut(c) ==
    frames[c].op = "convert" /\ frames[c].exc = "TimeoutError: Conversion timed out"

\* the last call to complete was caller c's op, with ret
Completed(c, op, ret) == done.caller = c /\ done.op = op /\ done.ret = ret

\* C31: a convert whose job is not done when the timeout of async_result.get
\* expires eventually raises TimeoutError, also when the job never finishes.
C31_ConversionTimeout ==
    \A c \in Callers :
        GetTimedOut(c) ~> Completed(c, "convert", "TimeoutError: Conversion timed out")

\* caller c is inside an async_shutdown
InShutdown(c) == frames[c].at \in {"close", "terminate", "join"}

\* the pools that run and that no async_shutdown has taken over
Live == {p \in PoolIds : pools[p].state = "run"
                          /\ \A c \in Callers : ~(InShutdown(c) /\ frames[c].down = p)}

\* C32: in every interleaving of the calls, a start that finds a pool returns
\* without making a pool or an event, and the only pool that runs without
\* being in the hands of an async_shutdown is the one self._pool holds.
C32_NoDoubleSpawn ==
    /\ [](Live \subseteq {pool})
    /\ [][(done' # done /\ done'.op = "start" /\ pool # 0)
            => /\ done'.pool = 0 /\ done'.ret = None
               /\ UNCHANGED <<pool, startup_event, pools, nextPool>>]_vars

\* C32 witness: a start has returned without making a pool while the first
\* pool is held and a call waits on it.
C32_Witness ==
    /\ done.op = "start" /\ done.ret = None /\ done.pool = 0
    /\ pool = 1 /\ Live = {1}
    /\ \E c \in Callers : frames[c].at = "get" /\ frames[c].pool = 1

\* caller c, idle before the step, has called op and the call has completed
\* in the same step
CalledAndDone(c, op) ==
    /\ frames[c].op = "idle" /\ frames'[c].op = "idle"
    /\ done' # done /\ done'.caller = c /\ done'.op = op

\* C33: while the converter holds no pool (before start, after a start that
\* failed, from the moment an async_shutdown has begun) a convert raises
\* "Converter pool not running" and a wait_for_startup raises "Converter pool
\* not started"; neither suspends, submits a job or changes the converter.
C33_OutsideRunningWindow ==
    [][pool = 0
        => \A c \in Callers :
             /\ frames[c].op = "idle" => frames'[c].op \notin {"convert", "wait_for_startup"}
             /\ CalledAndDone(c, "convert")
                  => /\ done'.ret = "RuntimeError: Converter pool not running"
                     /\ UNCHANGED <<pool, startup_event, pools, nextPool, frames>>
             /\ CalledAndDone(c, "wait_for_startup")
                  => /\ done'.ret = "RuntimeError: Converter pool not started"
                     /\ UNCHANGED <<pool, startup_event, pools, nextPool, frames>>]_vars

\* C33 witness: a convert was refused while the async_shutdown of the other
\* caller is still waiting for the pool to be joined.
C33_Witness ==
    /\ done.op = "convert" /\ done.ret = "RuntimeError: Converter pool not running"
    /\ pool = 0
    /\ \E c \in Callers :
          /\ c # done.caller /\ frames[c].op = "async_shutdown" /\ frames[c].at = "join"
          /\ pools[frames[c].down].pending > 0


\* C34: a second async_shutdown, made while the first is in flight or after
\* it, finds no pool, returns None at once and changes nothing, so no pool is
\* ever in the hands of two async_shutdown calls and none of them raises; a
\* second AsyncRSession.destroy on a destroyed session does not raise, leaves
\* the registry and the temp directories as they are, and leaves R as it is
\* unless the first call's removal of the environment had failed.
C34_IdempotentShutdown ==
    /\ [](\A c1, c2 \in Callers :
            (c1 # c2 /\ InShutdown(c1) /\ InShutdown(c2))
               => frames[c1].down # frames[c2].down)
    /\ [](done.op = "async_shutdown" => done.ret = None)
    /\ [][\A c \in Callers :
            (pool = 0 /\ CalledAndDone(c, "async_shutdown"))
               => UNCHANGED <<pool, startup_event, pools, nextPool, frames>>]_vars
    /\ [][(last' # last /\ last'.op = "AsyncRSession.destroy")
            => /\ ~last'.raised
               /\ UNCHANGED <<sessions, temp_dirs>>
               /\ globalenv.session_env[last.id] # last.prev
                     => UNCHANGED <<globalenv, envs>>]_vars

\* C34 witness: an async_shutdown has returned at once while another task's
\* async_shutdown waits in join for the pool it took over, and
\* AsyncRSession.destroy has been called again on a session whose first
\* destroy could not remove the temp directory.
C34_Witness ==
    /\ done.op = "async_shutdown" /\ done.ret = None /\ pool = 0
    /\ \E c \in Callers :
          /\ c # done.caller /\ frames[c].at = "join"
          /\ pools[frames[c].down].state = "closed"
    /\ last.op = "AsyncRSession.destroy" /\ last.failed /\ ~last.raised
    /\ temp_dirs[last.prev].exists


\* the wait_for_startup of caller c has seen Event.wait time out
StartupTimedOut(c) ==
    /\ frames[c].op = "wait_for_startup"
    /\ frames[c].exc = "TimeoutError: Converter startup timed out"

\* C35: a wait_for_startup whose event is not signalled within the timeout
\* shuts the pool down and eventually raises TimeoutError.
C35_StartupTimeout ==
    \A c \in Callers :
        StartupTimedOut(c)
          ~> Completed(c, "wait_for_startup", "TimeoutError: Converter startup timed out")


\* C36: wait_for_startup does not return True for a pool whose initializer
\* failed to build the converter.
C36_InitFailureDetected ==
    (done.op = "wait_for_startup" /\ done.ret = "True") => pools[done.pool].init = "ok"


\* C37: the step of convert that receives a ConversionResult returns it and
\* touches neither self._pool nor any pool, so a pool that the converter held
\* is still held and running for the next convert.
C37_ConvertKeepsPool ==
    /\ [](pool # 0 => pools[pool].state = "run")
    /\ [][\A c \in Callers :
            (frames[c].at = "get" /\ frames[c].job = "ok" /\ frames'[c].at # "get")
               => /\ frames'[c] = Idle
                  /\ done' = [caller |-> c, op |-> "convert", ret |-> "ConversionResult",
                               pool |-> frames[c].pool]
                  /\ UNCHANGED <<pool, startup_event, pools, nextPool>>]_vars

\* C37 witness: a convert has returned a result, the converter still holds the
\* pool that served it, and the worker of that pool has finished the job of a
\* further convert.
C37_Witness ==
    /\ done.op = "convert" /\ done.ret = "ConversionResult"
    /\ pool = done.pool /\ pools[pool].state = "run"
    /\ \E c \in Callers :
          /\ c # done.caller /\ frames[c].op = "convert" /\ frames[c].pool = pool
          /\ frames[c].at = "get" /\ frames[c].job = "ok"


\* what convert raises for a job: TimeoutError for one that is not done
Failure(job) ==
    IF job = "queued" THEN "TimeoutError: Conversion timed out"
    ELSE "RuntimeError: Conversion failed"

\* C38: the step of convert that sees the job time out, raise or return an
\* unexpected shape leaves self._pool None before anything else and never
\* returns a result; when convert then raises, the pool it used is closed or
\* being shut down and is not self._pool; while self._pool is None every
\* convert and wait_for_startup raises, and only a start makes it a pool
\* again; a convert rejected for a missing file changes nothing.
C38_FailureDisablesConverter ==
    [][\A c \in Callers :
        /\ (frames[c].at = "get" /\ frames[c].job # "ok" /\ frames'[c].at # "get")
              => /\ pool' = 0
                 /\ IF InShutdown(c)'
                    THEN frames'[c].exc = Failure(frames[c].job)
                    ELSE /\ frames'[c] = Idle /\ done'.caller = c /\ done'.op = "convert"
                         /\ done'.ret = Failure(frames[c].job)
        /\ (done' # done /\ done'.caller = c /\ done'.ret \in {Failure("queued"), Failure("raised")})
              => /\ pool' # done'.pool
                 /\ done'.pool \notin Live'
        /\ (pool = 0 /\ CalledAndDone(c, "convert") /\ pool' = 0)
              => done'.ret = "RuntimeError: Converter pool not running"
        /\ (pool = 0 /\ CalledAndDone(c, "wait_for_startup") /\ pool' = 0)
              => done'.ret = "RuntimeError: Converter pool not started"
        /\ (pool = 0 /\ pool' # 0) => (done' # done /\ done'.op = "start")
        /\ (done' # done /\ done'.caller = c /\ done'.ret = "FileNotFoundError")
              => /\ pool' = done'.pool /\ pools'[pool'].state = "run"
                 /\ UNCHANGED <<pool, startup_event, pools, nextPool>>]_vars

\* C38 witness: a convert has raised after its job timed out, the pool it used
\* is closed with the job done late, and the converter holds no pool.
C38_Witness ==
    /\ done.op = "convert" /\ done.ret = "TimeoutError: Conversion timed out"
    /\ pool = 0
    /\ pools[done.pool].state = "closed" /\ pools[done.pool].pending = 0
    /\ \A c \in Callers : IsIdle(c)


Constructed == {k \in DOMAIN sessions' : sessions'[k].inst = nextInst + 1}

\* C40: execute_r_command never lets an exception of create_session escape.
\* Without a session id it constructs one session: when the construction goes
\* through, the id reported is the one the new session is registered under
\* and the command ran in it; when it fails, the result has session_id "",
\* system_error_output set to a text and the two outputs None, and no new
\* session is registered.  With an id that is not registered it reports the
\* 'does not exist' system error under that id and changes nothing.
C40_ToolFrontEnd ==
    [][(last' # last /\ last'.op = "execute_r_command")
         => /\ ~last'.raised
            /\ last'.given = None
                 => /\ nextInst' = nextInst + 1
                    /\ IF Constructed # {}
                       THEN /\ last'.ret \in Ids
                            /\ InstOf(sessions', last'.ret) = nextInst + 1
                            /\ last'.inst = nextInst + 1
                            /\ last'.result.system_error_output = None
                       ELSE /\ last'.ret = ""
                            /\ last'.result.system_error_output \notin {None, ""}
                            /\ last'.result.successful_output = None
                            /\ last'.result.r_error_output = None
                            /\ SessionIds(sessions') \subseteq SessionIds(sessions)
            /\ (last'.given # None /\ last'.given \notin SessionIds(sessions))
                 => /\ last'.ret = last'.given
                    /\ last'.result = ExecutionResult(None, None, DoesNotExist(last'.given), {})
                    /\ UNCHANGED <<sessions, nextInst, globalenv, envs, temp_dirs>>]_vars

\* C40 witness: an execute_r_command without an id whose session construction
\* failed in R while another session is registered: it returned a result with
\* an empty session id and the text of the exception.
C40_Witness ==
    /\ last.op = "execute_r_command" /\ last.given = None
    /\ last.ret = "" /\ ~last.raised
    /\ last.result.system_error_output
          = "Failed to initialize R session environment session_env_" \o last.id
    /\ last.inst = 0 /\ Len(sessions) >= 1

====
